---- MODULE Spec2Model ----
(***************************************************************************)
(* A model of zkfs-symbols: the envelope-framed binary codec (varint,      *)
(* CRC-32, envelope, file/dir/group/SMT records, legacy dispatch) and the  *)
(* compression layer (canonical Huffman SymbolTree, Dictionary, blob       *)
(* pipeline).                                                              *)
(*                                                                         *)
(* Byte buffers (Uint8Array) are sequences over 0..255.  Source offsets    *)
(* are 0-based; element i of a buffer is buf[i + 1] here.  A thrown Error  *)
(* is a record [err |-> kind]; a returned value carries err |-> "none".    *)
(* JavaScript numbers that may exceed 31 bits (sizes, timestamps, varint   *)
(* values) are two-limb naturals [hi, lo] in base 2^28.                    *)
(***************************************************************************)
EXTENDS Integers, Sequences, FiniteSets, TLC

VARIABLES
    pc,      \* the operation that ran last
    obj,     \* the constructed value in use (SymbolTree, Dictionary, options)
    input,   \* the value handed to the encoder / compressor
    wire,    \* the byte buffer produced by the last encoder (or received)
    output   \* what the last decoder returned or threw

vars == <<pc, obj, input, wire, output>>

None == [kind |-> "none"]

Fail(kind) == [err |-> kind]

Min(a, b) == IF a < b THEN a ELSE b

Max(a, b) == IF a > b THEN a ELSE b

\* buf.slice(from, to) / buf.subarray(from, to): 0-based, end exclusive, clipped
Slice(buf, from, to) ==
    LET e == Min(to, Len(buf))
    IN IF from >= e THEN << >> ELSE SubSeq(buf, from + 1, e)

Repeat(b, n) == [i \in 1..n |-> b]

(***************************************************************************)
(* Two-limb naturals for JavaScript numbers up to 2^56.                    *)
(***************************************************************************)
LIMB == 2^28

Num(h, l) == [hi |-> h, lo |-> l]

N(n) == Num(0, n)

Zero == N(0)

NumPos(v) == v.hi > 0 \/ v.lo > 0

\* Math.floor(v / d) for d a power of two dividing LIMB
NumDiv(v, d) == Num(v.hi \div d, (v.lo \div d) + ((v.hi % d) * (LIMB \div d)))

\* v + b * 2^shift, b a byte
NumAddShifted(v, b, shift) ==
    IF shift < 28
    THEN LET s == v.lo + ((b * 2^shift) % LIMB)
             c == (b * 2^shift) \div LIMB
         IN Num(v.hi + c + (s \div LIMB), s % LIMB)
    ELSE Num(v.hi + b * 2^(shift - 28), v.lo)

\* v * 256 + b
NumShl8Add(v, b) ==
    Num((v.hi * 256) + (v.lo \div (LIMB \div 256)), ((v.lo % (LIMB \div 256)) * 256) + b)

Pow2Num(k) == IF k < 28 THEN Num(0, 2^k) ELSE Num(2^(k - 28), 0)

Pow2Minus1(k) == IF k <= 28 THEN Num(0, 2^k - 1) ELSE Num(2^(k - 28) - 1, LIMB - 1)

\* lengths and offsets read from a buffer: every value from 2^30 on acts alike
\* (past the end of any buffer)
ToIndex(v) == IF v.hi >= 4 THEN 2 ^ 30 ELSE (v.hi * LIMB) + v.lo

(***************************************************************************)
(* codec/varint.ts                                                         *)
(***************************************************************************)
RECURSIVE encode_varint_low32(_)
\* the loop with value >>> 7 in place of Math.floor(value / 128)
encode_varint_low32(value) ==
    LET byte == value.lo % 128
        rest == Num(0, ((value.hi % 16) * (LIMB \div 128)) + (value.lo \div 128))
    IN IF NumPos(rest)
       THEN <<byte + 128>> \o encode_varint_low32(rest)
       ELSE <<byte>>

RECURSIVE encode_varint(_)
encode_varint(value) ==
    LET byte == value.lo % 128
        rest == NumDiv(value, 128)
    IN IF NumPos(rest)
       THEN <<byte + 128>> \o encode_varint(rest)
       ELSE <<byte>>

RECURSIVE varint_loop(_, _, _, _, _)
varint_loop(buf, offset, pos, value, shift) ==
    IF pos >= Len(buf)
    THEN Fail("Truncated")
    ELSE LET byte == buf[pos + 1]
             v2 == NumAddShifted(value, byte % 128, shift)
         IN IF byte < 128
            THEN [err |-> "none", value |-> v2, len |-> pos + 1 - offset]
            ELSE IF shift + 7 > 49
                 THEN Fail("TooLarge")
                 ELSE varint_loop(buf, offset, pos + 1, v2, shift + 7)

decode_varint(buf, offset) == varint_loop(buf, offset, offset, Zero, 0)

(***************************************************************************)
(* Bitwise helpers: JavaScript ^ on 8-bit and on 32-bit operands.  A       *)
(* 32-bit unsigned value is a pair of 16-bit halves [h, l].                *)
(***************************************************************************)
RECURSIVE XorBits(_, _, _)
XorBits(a, b, n) ==
    IF n = 0 THEN 0
    ELSE ((a + b) % 2) + (2 * XorBits(a \div 2, b \div 2, n - 1))

Xor8Table == [a \in 0..255 |-> [b \in 0..255 |-> XorBits(a, b, 8)]]

Xor8(a, b) == Xor8Table[a][b]

Xor16(a, b) == (Xor8(a \div 256, b \div 256) * 256) + Xor8(a % 256, b % 256)

U32(h, l) == [h |-> h, l |-> l]

Xor32(x, y) == U32(Xor16(x.h, y.h), Xor16(x.l, y.l))

\* x >>> n, 0 < n <= 16
Shr32(x, n) == U32(x.h \div 2^n, (x.l \div 2^n) + ((x.h % 2^n) * 2^(16 - n)))

FlipBit(buf, i, k) ==
    [buf EXCEPT ![i + 1] = Xor8(buf[i + 1], 2^k)]

(***************************************************************************)
(* codec/crc32.ts                                                          *)
(***************************************************************************)
POLY == U32(60856, 33568)      \* 0xEDB88320

RECURSIVE crc_table_entry(_, _)
crc_table_entry(crc, j) ==
    IF j = 0 THEN crc
    ELSE crc_table_entry(
             IF crc.l % 2 = 1 THEN Xor32(Shr32(crc, 1), POLY) ELSE Shr32(crc, 1),
             j - 1)

TABLE == [i \in 0..255 |-> crc_table_entry(U32(0, i), 8)]

\* one round of the loop of crc32
crc_step(crc, byte) == Xor32(TABLE[Xor8(crc.l % 256, byte)], Shr32(crc, 8))

\* the loop of crc32 over data[lo .. hi - 1], evaluated by halves so that a long
\* buffer does not nest deeply
RECURSIVE crc_range(_, _, _, _)
crc_range(data, lo, hi, crc) ==
    IF hi <= lo THEN crc
    ELSE IF hi - lo = 1 THEN crc_step(crc, data[lo + 1])
    ELSE LET mid == (lo + hi) \div 2
             left == crc_range(data, lo, mid, crc)
         IN IF left = left THEN crc_range(data, mid, hi, left) ELSE left

crc32(data) ==
    Xor32(crc_range(data, 0, Len(data), U32(65535, 65535)), U32(65535, 65535))

crc32_bytes(data) ==
    LET c == crc32(data)
    IN <<c.h \div 256, c.h % 256, c.l \div 256, c.l % 256>>

verify_crc32(buf) ==
    IF Len(buf) < 4 THEN FALSE
    ELSE LET n == Len(buf)
             expected == crc32(Slice(buf, 0, n - 4))
         IN /\ (buf[n - 3] * 256) + buf[n - 2] = expected.h
            /\ (buf[n - 1] * 256) + buf[n] = expected.l

(***************************************************************************)
(* codec/constants.ts: tags, sizes, envelope                               *)
(***************************************************************************)
MAGIC == <<90, 75>>            \* 0x5A 0x4B

VERSION == 1

TAG_FILE_NODE == 1

TAG_DIR_NODE == 2

TAG_GROUP == 3

TAG_SMT == 4

TAG_COMPRESSED_BLOB == 16

HASH_SIZE == 32

NONCE_SIZE == 24

TIMESTAMP_SIZE == 6

ENVELOPE_HEADER_SIZE == 4

ENVELOPE_FOOTER_SIZE == 4

\* the trailer computed over the payload alone
write_envelope_payload_crc(tag, payload) ==
    <<MAGIC[1], MAGIC[2], VERSION, tag>> \o payload \o crc32_bytes(payload)

write_envelope(tag, payload) ==
    LET crc_input == <<MAGIC[1], MAGIC[2], VERSION, tag>> \o payload
    IN crc_input \o crc32_bytes(crc_input)

\* the checks with the CRC verified before the magic and the version
read_envelope_crc_first(buf) ==
    IF Len(buf) < ENVELOPE_HEADER_SIZE + ENVELOPE_FOOTER_SIZE THEN Fail("TooShort")
    ELSE IF ~verify_crc32(buf) THEN Fail("BadCrc")
    ELSE IF buf[1] # MAGIC[1] \/ buf[2] # MAGIC[2] THEN Fail("BadMagic")
    ELSE IF buf[3] # VERSION THEN Fail("BadVersion")
    ELSE [err |-> "none", tag |-> buf[4],
          payload |-> Slice(buf, ENVELOPE_HEADER_SIZE, Len(buf) - ENVELOPE_FOOTER_SIZE)]

read_envelope(buf) ==
    IF Len(buf) < ENVELOPE_HEADER_SIZE + ENVELOPE_FOOTER_SIZE THEN Fail("TooShort")
    ELSE IF buf[1] # MAGIC[1] \/ buf[2] # MAGIC[2] THEN Fail("BadMagic")
    ELSE IF buf[3] # VERSION THEN Fail("BadVersion")
    ELSE IF ~verify_crc32(buf) THEN Fail("BadCrc")
    ELSE [err |-> "none", tag |-> buf[4],
          payload |-> Slice(buf, ENVELOPE_HEADER_SIZE, Len(buf) - ENVELOPE_FOOTER_SIZE)]

has_magic(buf) == Len(buf) >= 2 /\ buf[1] = MAGIC[1] /\ buf[2] = MAGIC[2]

(***************************************************************************)
(* Inputs of the varint operations.                                        *)
(***************************************************************************)
MaxSmallInt == 40

MaxPad == 2

VarintInputs ==
    {N(n) : n \in 0..MaxSmallInt}
    \cup {N(n) : n \in {127, 128, 300, 16383, 16384, 1000000}}
    \cup {Pow2Num(k) : k \in 1..48}
    \cup {Pow2Minus1(k) : k \in 1..48}
    \cup {Num(6332, 105775104)}     \* 1_700_000_000_000

PadBytes == {<< >>} \cup {Repeat(b, n) : b \in {0, 255}, n \in 1..MaxPad}

InitIdle ==
    /\ pc = "idle"
    /\ obj = None
    /\ input = None
    /\ wire = << >>
    /\ output = None

\* encode_varint(n), written at offset Len(prefix) of a buffer that continues
EncodeVarint ==
    /\ pc = "idle"
    /\ \E n \in VarintInputs, prefix \in PadBytes, suffix \in PadBytes :
        LET enc == encode_varint(n)
        IN /\ pc' = "varint_encoded"
           /\ input' = [n |-> n, offset |-> Len(prefix), enc_len |-> Len(enc)]
           /\ wire' = prefix \o enc \o suffix
           /\ output' = None
           /\ UNCHANGED obj

\* decode_varint(buf, offset) on the buffer written last
DecodeVarint ==
    /\ pc = "varint_encoded"
    /\ pc' = "varint_decoded"
    /\ output' = decode_varint(wire, input.offset)
    /\ UNCHANGED <<obj, input, wire>>

NextVarint == EncodeVarint \/ DecodeVarint

SpecVarint == InitIdle /\ [][NextVarint]_vars

\* C7: for 0 <= n <= 2^48, decode_varint of encode_varint(n), at any offset and
\* whatever bytes follow, returns (n, L) with L the length of encode_varint(n).
VarintRoundTrip ==
    pc = "varint_decoded" =>
        /\ output.err = "none"
        /\ output.value = input.n
        /\ output.len = input.enc_len

\* a 7-byte value (2^48) decoded at a non-zero offset with trailing bytes
VarintRoundTripWitness ==
    /\ pc = "varint_decoded"
    /\ input.n = Pow2Num(48)
    /\ input.offset > 0
    /\ Len(wire) > input.offset + input.enc_len
    /\ output.err = "none"
    /\ output.len = 7

(***************************************************************************)
(* Envelope writer and reader.                                             *)
(***************************************************************************)
MaxPayload == 2

PayloadBytes == {0, 165}

Payloads == UNION {[1..n -> PayloadBytes] : n \in 0..MaxPayload}

EnvelopeTags ==
    {TAG_FILE_NODE, TAG_DIR_NODE, TAG_GROUP, TAG_SMT, TAG_COMPRESSED_BLOB, 0}

\* write_envelope(tag, payload)
WriteEnvelope ==
    /\ pc = "idle"
    /\ \E tag \in EnvelopeTags, payload \in Payloads :
        /\ pc' = "env_written"
        /\ input' = [tag |-> tag, payload |-> payload]
        /\ wire' = write_envelope(tag, payload)
        /\ output' = None
        /\ UNCHANGED obj

\* one bit of the header or the payload of a written envelope flips in transit
FlipEnvelopeBit ==
    /\ pc = "env_written"
    /\ \E i \in 0..(Len(wire) - ENVELOPE_FOOTER_SIZE - 1), k \in 0..7 :
        /\ pc' = "env_flipped"
        /\ wire' = FlipBit(wire, i, k)
        /\ obj' = [byte |-> i, bit |-> k]
        /\ UNCHANGED <<input, output>>

\* the trailers a received buffer may carry for the bytes before it
Trailers(body) ==
    {crc32_bytes(body), FlipBit(crc32_bytes(body), 3, 0), <<0, 0, 0, 0>>}

\* a buffer from elsewhere: any mix of wrong magic, wrong version, wrong
\* checksum and wrong length
ReceiveEnvelope ==
    /\ pc = "idle"
    /\ \E m0 \in {MAGIC[1], 91}, m1 \in {MAGIC[2], 0}, ver \in {VERSION, 0, 2},
          tag \in {TAG_FILE_NODE, TAG_COMPRESSED_BLOB}, payload \in Payloads :
        LET body == <<m0, m1, ver, tag>> \o payload
        IN \E trailer \in Trailers(body) :
            \E n \in 0..Len(body \o trailer) :
                /\ pc' = "env_received"
                /\ wire' = Slice(body \o trailer, 0, n)
                /\ input' = None
                /\ output' = None
                /\ UNCHANGED obj

\* read_envelope(buf)
ReadEnvelope ==
    /\ pc \in {"env_written", "env_flipped", "env_received"}
    /\ pc' = IF pc = "env_written" THEN "env_read"
             ELSE IF pc = "env_flipped" THEN "env_read_flipped"
             ELSE "env_read_received"
    /\ output' = read_envelope(wire)
    /\ UNCHANGED <<obj, input, wire>>

NextEnvelope == WriteEnvelope \/ FlipEnvelopeBit \/ ReceiveEnvelope \/ ReadEnvelope

SpecEnvelope == InitIdle /\ [][NextEnvelope]_vars

EnvRead == pc \in {"env_read", "env_read_flipped", "env_read_received"}

\* the outcome the fixed order of checks prescribes for a buffer
ExpectedEnvelopeError(buf) ==
    IF Len(buf) < 8 THEN "TooShort"
    ELSE IF buf[1] # 90 \/ buf[2] # 75 THEN "BadMagic"
    ELSE IF buf[3] # 1 THEN "BadVersion"
    ELSE IF ~verify_crc32(buf) THEN "BadCrc"
    ELSE "none"

\* C8: read_envelope checks length, magic, version, checksum in that order and
\* stops at the first failure; a failed read exposes no tag and no payload; a
\* passed read returns the byte at offset 3 and the bytes between the 4-byte
\* header and the 4-byte trailer.
EnvelopeCheckOrder ==
    EnvRead =>
        /\ output.err = ExpectedEnvelopeError(wire)
        /\ output.err # "none" => DOMAIN output = {"err"}
        /\ output.err = "none" =>
            /\ output.tag = wire[4]
            /\ output.payload = [i \in 1..(Len(wire) - 8) |-> wire[i + 4]]

\* a full-length buffer with wrong magic and wrong checksum reports BadMagic
EnvelopeCheckOrderWitness ==
    /\ pc = "env_read_received"
    /\ Len(wire) >= 8
    /\ wire[1] # 90
    /\ wire[3] # 1
    /\ ~verify_crc32(wire)
    /\ output.err = "BadMagic"

\* CRC-32 (IEEE 802.3, reflected, init and final XOR 0xFFFFFFFF) one bit at a time
RECURSIVE RefCrcBits(_, _)
RefCrcBits(crc, j) ==
    IF j = 0 THEN crc
    ELSE RefCrcBits(IF crc.l % 2 = 1
                    THEN Xor32(Shr32(crc, 1), U32(60856, 33568))
                    ELSE Shr32(crc, 1), j - 1)

RefCrcByte(crc, byte) == RefCrcBits(Xor32(crc, U32(0, byte)), 8)

RECURSIVE RefCrcRange(_, _, _, _)
RefCrcRange(data, lo, hi, crc) ==
    IF hi <= lo THEN crc
    ELSE IF hi - lo = 1 THEN RefCrcByte(crc, data[lo + 1])
    ELSE LET mid == (lo + hi) \div 2
             left == RefCrcRange(data, lo, mid, crc)
         IN IF left = left THEN RefCrcRange(data, mid, hi, left) ELSE left

RefCrc32(data) ==
    Xor32(RefCrcRange(data, 0, Len(data), U32(65535, 65535)), U32(65535, 65535))

\* C9: the last 4 bytes of write_envelope(tag, payload) are the big-endian CRC-32
\* of header plus payload, and a single flipped bit in header or payload makes the
\* checksum verification and the read fail.
EnvelopeCrcProtects ==
    /\ pc \in {"env_written", "env_read"} =>
        LET n == Len(wire)
            c == RefCrc32(<<90, 75, 1, input.tag>> \o input.payload)
        IN /\ n = Len(input.payload) + 8
           /\ Slice(wire, 0, n - 4) = <<90, 75, 1, input.tag>> \o input.payload
           /\ Slice(wire, n - 4, n) = <<c.h \div 256, c.h % 256, c.l \div 256, c.l % 256>>
    /\ pc = "env_read" => output.err = "none"
    /\ pc \in {"env_flipped", "env_read_flipped"} => ~verify_crc32(wire)
    /\ pc = "env_read_flipped" => output.err # "none"

\* a flipped bit of the tag byte or of the payload (magic and version intact)
\* is caught by the checksum
EnvelopeCrcProtectsWitness ==
    /\ pc = "env_read_flipped"
    /\ obj.byte >= 3
    /\ Len(input.payload) > 0
    /\ output.err = "BadCrc"

\* crc32("123456789") = 0xCBF43926
CrcKnownAnswer == crc32(<<49, 50, 51, 52, 53, 54, 55, 56, 57>>) = U32(52212, 14630)

\* ---------------------------------------------------------------------------
\* Record codecs.  A decoder returns [err |-> "none", value |-> v] or an error
\* ---------------------------------------------------------------------------
\* buf[i]: a read past the end gives undefined, written -1
At(buf, i) == IF i >= 0 /\ i < Len(buf) THEN buf[i + 1] ELSE -1

\* the result of arithmetic on undefined
NaN == [hi |-> -1, lo |-> -1]

NumDec(v) == IF v.lo > 0 THEN Num(v.hi, v.lo - 1) ELSE Num(v.hi - 1, LIMB - 1)

\* target.set(source, offset) into a field of n bytes of a zeroed buffer
Field(source, n) == [i \in 1 .. n |-> IF i <= Len(source) THEN source[i] ELSE 0]

ROLE_READ == 0

ROLE_WRITE == 1

ROLE_ADMIN == 2

encode_role(role) ==
    CASE role = "read" -> ROLE_READ
      [] role = "write" -> ROLE_WRITE
      [] role = "admin" -> ROLE_ADMIN

\* the message of the default case calls byte.toString, which throws a
\* TypeError when the byte is undefined
decode_role(byte) ==
    CASE byte = ROLE_READ -> [err |-> "none", role |-> "read"]
      [] byte = ROLE_WRITE -> [err |-> "none", role |-> "write"]
      [] byte = ROLE_ADMIN -> [err |-> "none", role |-> "admin"]
      [] byte = -1 -> Fail("TypeError")
      [] OTHER -> Fail("Malformed")

\* buf[i] = val & 0xff; val = Math.floor(val / 256), for i = 5 .. 0
RECURSIVE timestamp_bytes(_, _)
timestamp_bytes(val, i) ==
    IF i < 0 THEN <<>>
    ELSE Append(timestamp_bytes(NumDiv(val, 256), i - 1), val.lo % 256)

encode_timestamp(ts) == timestamp_bytes(ts, TIMESTAMP_SIZE - 1)

\* val = val * 256 + buf[offset + i], for the first n bytes
RECURSIVE timestamp_value(_, _, _)
timestamp_value(buf, offset, n) ==
    IF n = 0 THEN Zero
    ELSE NumShl8Add(timestamp_value(buf, offset, n - 1), buf[offset + n])

\* decode_timestamp keeping the low 32 bits of the instant
decode_timestamp_low32(buf, offset) ==
    IF offset + TIMESTAMP_SIZE > Len(buf) THEN NaN
    ELSE Num(timestamp_value(buf, offset, TIMESTAMP_SIZE).hi % 16,
             timestamp_value(buf, offset, TIMESTAMP_SIZE).lo)

decode_timestamp(buf, offset) ==
    IF offset + TIMESTAMP_SIZE > Len(buf) THEN NaN
    ELSE timestamp_value(buf, offset, TIMESTAMP_SIZE)

encode_chunk_ref(ref) ==
    encode_varint(ref.index) \o Field(ref.hash, HASH_SIZE)
        \o Field(ref.blob_address, HASH_SIZE) \o Field(ref.nonce, NONCE_SIZE)

\* decode_chunk_ref once the index is read
chunk_ref_fields(buf, offset, index) ==
    IF index.err # "none" THEN index
    ELSE [err |-> "none",
          chunk |-> [index |-> index.value,
                     hash |-> Slice(buf, offset + index.len, offset + index.len + HASH_SIZE),
                     blob_address |-> Slice(buf, offset + index.len + HASH_SIZE,
                                            offset + index.len + (2 * HASH_SIZE)),
                     nonce |-> Slice(buf, offset + index.len + (2 * HASH_SIZE),
                                     offset + index.len + (2 * HASH_SIZE) + NONCE_SIZE)],
          bytes_read |-> index.len + (2 * HASH_SIZE) + NONCE_SIZE]

decode_chunk_ref(buf, offset) == chunk_ref_fields(buf, offset, decode_varint(buf, offset))

\* the chunk buffers of encode_file_node, concatenated
RECURSIVE encode_chunks(_, _, _)
encode_chunks(chunks, lo, hi) ==
    IF hi <= lo THEN <<>>
    ELSE IF hi - lo = 1 THEN encode_chunk_ref(chunks[hi])
    ELSE encode_chunks(chunks, lo, lo + ((hi - lo) \div 2))
         \o encode_chunks(chunks, lo + ((hi - lo) \div 2), hi)

encode_file_node(node) ==
    write_envelope(TAG_FILE_NODE,
        Field(node.content_hash, HASH_SIZE)
            \o encode_timestamp(node.created) \o encode_timestamp(node.modified)
            \o encode_varint(node.size) \o encode_varint(N(Len(node.chunks)))
            \o encode_chunks(node.chunks, 0, Len(node.chunks)))

\* the chunk loop of decode_file_node_payload with `remaining` chunks to read
RECURSIVE decode_chunks(_, _, _, _)
RECURSIVE chunk_read(_, _, _, _, _)
decode_chunks(payload, offset, remaining, chunks) ==
    IF remaining = Zero THEN [err |-> "none", chunks |-> chunks]
    ELSE chunk_read(payload, offset, remaining, chunks, decode_chunk_ref(payload, offset))

chunk_read(payload, offset, remaining, chunks, ref) ==
    IF ref.err # "none" THEN ref
    ELSE decode_chunks(payload, offset + ref.bytes_read, NumDec(remaining),
                       Append(chunks, ref.chunk))

\* decode_file_node_payload once the chunks are read
file_node_value(payload, size, chunks) ==
    IF chunks.err # "none" THEN chunks
    ELSE [err |-> "none",
          value |-> [type |-> "file",
                     content_hash |-> Slice(payload, 0, HASH_SIZE),
                     size |-> size.value,
                     created |-> decode_timestamp(payload, HASH_SIZE),
                     modified |-> decode_timestamp(payload, HASH_SIZE + TIMESTAMP_SIZE),
                     chunks |-> chunks.chunks]]

\* decode_file_node_payload once chunk_count is read
file_node_chunks(payload, size, offset, chunk_count) ==
    IF chunk_count.err # "none" THEN chunk_count
    ELSE file_node_value(payload, size,
            decode_chunks(payload, offset + chunk_count.len, chunk_count.value, <<>>))

\* decode_file_node_payload once size is read
file_node_counts(payload, offset, size) ==
    IF size.err # "none" THEN size
    ELSE file_node_chunks(payload, size, offset + size.len,
                          decode_varint(payload, offset + size.len))

decode_file_node_payload(payload) ==
    file_node_counts(payload, HASH_SIZE + (2 * TIMESTAMP_SIZE),
                     decode_varint(payload, HASH_SIZE + (2 * TIMESTAMP_SIZE)))

\* a decoder that reads the payload whatever the tag
accept_any_tag(env, tag) ==
    IF env.err # "none" THEN env ELSE [err |-> "none", payload |-> env.payload]

\* a decoder that accepts one tag, once the envelope is read
expect_tag(env, tag) ==
    IF env.err # "none" THEN env
    ELSE IF env.tag # tag THEN Fail("BadTag")
    ELSE [err |-> "none", payload |-> env.payload]

file_node_payload(checked) ==
    IF checked.err # "none" THEN checked ELSE decode_file_node_payload(checked.payload)

decode_file_node(buf) == file_node_payload(expect_tag(read_envelope(buf), TAG_FILE_NODE))

\* group_id of a DirNode: null, or a hash
NoGroup == [present |-> FALSE, bytes |-> <<>>]

GroupId(bytes) == [present |-> TRUE, bytes |-> bytes]

encode_dir_node(node) ==
    write_envelope(TAG_DIR_NODE,
        Field(node.smt_root, HASH_SIZE)
            \o (IF node.group_id.present
                THEN <<1>> \o Field(node.group_id.bytes, HASH_SIZE)
                ELSE <<0>>)
            \o encode_timestamp(node.created) \o encode_timestamp(node.modified))

\* decode_dir_node_payload once has_group is read; offset is past the group id
dir_node_value(payload, has_group, offset) ==
    [err |-> "none",
     value |-> [type |-> "dir",
                smt_root |-> Slice(payload, 0, HASH_SIZE),
                group_id |-> IF has_group
                             THEN GroupId(Slice(payload, HASH_SIZE + 1, offset))
                             ELSE NoGroup,
                created |-> decode_timestamp(payload, offset),
                modified |-> decode_timestamp(payload, offset + TIMESTAMP_SIZE)]]

decode_dir_node_payload(payload) ==
    IF At(payload, HASH_SIZE) = 1
    THEN dir_node_value(payload, TRUE, HASH_SIZE + 1 + HASH_SIZE)
    ELSE dir_node_value(payload, FALSE, HASH_SIZE + 1)

dir_node_payload(checked) ==
    IF checked.err # "none" THEN checked ELSE decode_dir_node_payload(checked.payload)

decode_dir_node(buf) == dir_node_payload(expect_tag(read_envelope(buf), TAG_DIR_NODE))

\* one member buffer of encode_group
encode_member(m) ==
    Field(m.pubkey, HASH_SIZE) \o encode_varint(N(Len(m.encrypted_dek)))
        \o m.encrypted_dek \o <<encode_role(m.role)>>

RECURSIVE encode_members(_, _, _)
encode_members(members, lo, hi) ==
    IF hi <= lo THEN <<>>
    ELSE IF hi - lo = 1 THEN encode_member(members[hi])
    ELSE encode_members(members, lo, lo + ((hi - lo) \div 2))
         \o encode_members(members, lo + ((hi - lo) \div 2), hi)

encode_group(group) ==
    write_envelope(TAG_GROUP,
        Field(group.id, HASH_SIZE) \o encode_varint(N(Len(group.members)))
            \o encode_members(group.members, 0, Len(group.members)))

\* the member loop of decode_group_payload with `remaining` members to read
RECURSIVE decode_members(_, _, _, _)
RECURSIVE member_dek(_, _, _, _, _)
RECURSIVE member_role(_, _, _, _, _, _)
decode_members(payload, offset, remaining, members) ==
    IF remaining = Zero THEN [err |-> "none", members |-> members]
    ELSE member_dek(payload, offset, remaining, members,
                    decode_varint(payload, offset + HASH_SIZE))

\* one member once dek_len is read; offset is at the pubkey
member_dek(payload, offset, remaining, members, dek_len) ==
    IF dek_len.err # "none" THEN dek_len
    ELSE member_role(payload, remaining, members,
                     [pubkey |-> Slice(payload, offset, offset + HASH_SIZE),
                      encrypted_dek |->
                          Slice(payload, offset + HASH_SIZE + dek_len.len,
                                offset + HASH_SIZE + dek_len.len + ToIndex(dek_len.value))],
                     offset + HASH_SIZE + dek_len.len + ToIndex(dek_len.value),
                     decode_role(At(payload, offset + HASH_SIZE + dek_len.len
                                             + ToIndex(dek_len.value))))

\* one member once the role byte at offset is read
member_role(payload, remaining, members, keys, offset, role) ==
    IF role.err # "none" THEN role
    ELSE decode_members(payload, offset + 1, NumDec(remaining),
            Append(members, [pubkey |-> keys.pubkey,
                             encrypted_dek |-> keys.encrypted_dek,
                             role |-> role.role]))

\* decode_group_payload once member_count is read
group_value(payload, members) ==
    IF members.err # "none" THEN members
    ELSE [err |-> "none",
          value |-> [id |-> Slice(payload, 0, HASH_SIZE), members |-> members.members]]

group_members(payload, member_count) ==
    IF member_count.err # "none" THEN member_count
    ELSE group_value(payload,
            decode_members(payload, HASH_SIZE + member_count.len, member_count.value, <<>>))

decode_group_payload(payload) == group_members(payload, decode_varint(payload, HASH_SIZE))

group_payload(checked) ==
    IF checked.err # "none" THEN checked ELSE decode_group_payload(checked.payload)

decode_group(buf) == group_payload(expect_tag(read_envelope(buf), TAG_GROUP))

\* the longest bit path unpack_bits is taken to allocate; a longer one ends
\* the call with the engine's allocation error
MaxPathBits == 64

BitAt(bits, i) == IF i <= Len(bits) /\ bits[i] THEN 1 ELSE 0

\* packing with the first bit in the lowest position: 0x01 << (i % 8)
pack_bits_lsb_first(bits) ==
    [k \in 1 .. ((Len(bits) + 7) \div 8) |->
        BitAt(bits, (8 * k) - 7) + (2 * BitAt(bits, (8 * k) - 6))
        + (4 * BitAt(bits, (8 * k) - 5)) + (8 * BitAt(bits, (8 * k) - 4))
        + (16 * BitAt(bits, (8 * k) - 3)) + (32 * BitAt(bits, (8 * k) - 2))
        + (64 * BitAt(bits, (8 * k) - 1)) + (128 * BitAt(bits, 8 * k))]

\* buf[Math.floor(i / 8)] |= 0x80 >> (i % 8) for every set bit
pack_bits(bits) ==
    [k \in 1 .. ((Len(bits) + 7) \div 8) |->
        (128 * BitAt(bits, (8 * k) - 7)) + (64 * BitAt(bits, (8 * k) - 6))
        + (32 * BitAt(bits, (8 * k) - 5)) + (16 * BitAt(bits, (8 * k) - 4))
        + (8 * BitAt(bits, (8 * k) - 3)) + (4 * BitAt(bits, (8 * k) - 2))
        + (2 * BitAt(bits, (8 * k) - 1)) + BitAt(bits, 8 * k)]

\* ((buf[offset + byte_idx] >> bit_idx) & 1) === 1; an undefined byte gives 0
unpack_bits(buf, offset, bit_count) ==
    [i \in 1 .. bit_count |->
        At(buf, offset + ((i - 1) \div 8)) >= 0
        /\ (At(buf, offset + ((i - 1) \div 8)) \div (2 ^ (7 - ((i - 1) % 8)))) % 2 = 1]

\* one entry buffer of encode_smt
encode_entry(entry) ==
    encode_varint(N(Len(entry.path_bits))) \o pack_bits(entry.path_bits)
        \o Field(entry.value, HASH_SIZE)

RECURSIVE encode_entries(_, _, _)
encode_entries(entries, lo, hi) ==
    IF hi <= lo THEN <<>>
    ELSE IF hi - lo = 1 THEN encode_entry(entries[hi])
    ELSE encode_entries(entries, lo, lo + ((hi - lo) \div 2))
         \o encode_entries(entries, lo + ((hi - lo) \div 2), hi)

encode_smt(smt) ==
    write_envelope(TAG_SMT,
        Field(smt.root, HASH_SIZE) \o encode_varint(N(Len(smt.entries)))
            \o encode_entries(smt.entries, 0, Len(smt.entries)))

\* the entry loop of decode_smt_payload with `remaining` entries to read
RECURSIVE decode_entries(_, _, _, _)
RECURSIVE entry_read(_, _, _, _, _)
decode_entries(payload, offset, remaining, entries) ==
    IF remaining = Zero THEN [err |-> "none", entries |-> entries]
    ELSE entry_read(payload, offset, remaining, entries, decode_varint(payload, offset))

\* one entry once bit_len is read
entry_read(payload, offset, remaining, entries, bit_len) ==
    IF bit_len.err # "none" THEN bit_len
    ELSE IF bit_len.value.hi > 0 \/ bit_len.value.lo > MaxPathBits
    THEN Fail("OutOfMemory")
    ELSE decode_entries(payload,
            offset + bit_len.len + ((bit_len.value.lo + 7) \div 8) + HASH_SIZE,
            NumDec(remaining),
            Append(entries,
                   [path_bits |-> unpack_bits(payload, offset + bit_len.len, bit_len.value.lo),
                    value |-> Slice(payload,
                                    offset + bit_len.len + ((bit_len.value.lo + 7) \div 8),
                                    offset + bit_len.len + ((bit_len.value.lo + 7) \div 8)
                                        + HASH_SIZE)]))

\* decode_smt_payload once entry_count is read
smt_value(payload, entries) ==
    IF entries.err # "none" THEN entries
    ELSE [err |-> "none",
          value |-> [root |-> Slice(payload, 0, HASH_SIZE), entries |-> entries.entries]]

smt_entries(payload, entry_count) ==
    IF entry_count.err # "none" THEN entry_count
    ELSE smt_value(payload,
            decode_entries(payload, HASH_SIZE + entry_count.len, entry_count.value, <<>>))

decode_smt_payload(payload) == smt_entries(payload, decode_varint(payload, HASH_SIZE))

smt_payload(checked) ==
    IF checked.err # "none" THEN checked ELSE decode_smt_payload(checked.payload)

decode_smt(buf) == smt_payload(expect_tag(read_envelope(buf), TAG_SMT))

\* ---------------------------------------------------------------------------
\* codec/node.ts: the node dispatcher and the legacy textual form
\* ---------------------------------------------------------------------------
encode_node(node) ==
    CASE node.type = "file" -> encode_file_node(node)
      [] node.type = "dir" -> encode_dir_node(node)
      [] OTHER -> Fail("UnknownNodeType")

\* the binary path of decode_node once the envelope is read
node_payload(env) ==
    IF env.err # "none" THEN env
    ELSE CASE env.tag = TAG_FILE_NODE -> decode_file_node_payload(env.payload)
           [] env.tag = TAG_DIR_NODE -> decode_dir_node_payload(env.payload)
           [] OTHER -> Fail("BadTag")

\* Values of the textual form: null, numbers, strings (as character codes),
\* arrays, objects (members in order) and, once revived, byte arrays.
JNull == [t |-> "null", v |-> 0]

JNum(n) == [t |-> "num", v |-> n]

JStr(chars) == [t |-> "str", v |-> chars]

JArr(items) == [t |-> "arr", v |-> items]

JObj(members) == [t |-> "obj", v |-> members]

JBytes(bytes) == [t |-> "bytes", v |-> bytes]

Member(key, value) == [key |-> key, value |-> value]

\* the names and the type strings of the textual form, as character codes
KEY ==
    [type |-> <<116, 121, 112, 101>>,
     file |-> <<102, 105, 108, 101>>,
     dir |-> <<100, 105, 114>>,
     content_hash |-> <<99, 111, 110, 116, 101, 110, 116, 95, 104, 97, 115, 104>>,
     size |-> <<115, 105, 122, 101>>,
     created |-> <<99, 114, 101, 97, 116, 101, 100>>,
     modified |-> <<109, 111, 100, 105, 102, 105, 101, 100>>,
     chunks |-> <<99, 104, 117, 110, 107, 115>>,
     index |-> <<105, 110, 100, 101, 120>>,
     hash |-> <<104, 97, 115, 104>>,
     blob_address |-> <<98, 108, 111, 98, 95, 97, 100, 100, 114, 101, 115, 115>>,
     nonce |-> <<110, 111, 110, 99, 101>>,
     smt_root |-> <<115, 109, 116, 95, 114, 111, 111, 116>>,
     group_id |-> <<103, 114, 111, 117, 112, 95, 105, 100>>,
     uint8array |-> <<95, 95, 117, 105, 110, 116, 56, 97, 114, 114, 97, 121>>,
     id |-> <<105, 100>>,
     members |-> <<109, 101, 109, 98, 101, 114, 115>>,
     pubkey |-> <<112, 117, 98, 107, 101, 121>>,
     encrypted_dek |-> <<101, 110, 99, 114, 121, 112, 116, 101, 100, 95, 100, 101, 107>>,
     role |-> <<114, 111, 108, 101>>,
     read |-> <<114, 101, 97, 100>>,
     write |-> <<119, 114, 105, 116, 101>>,
     admin |-> <<97, 100, 109, 105, 110>>]

\* Math.floor(v / 10) of a two-limb number: 2^28 = 26843545 * 10 + 6
NumDiv10(v) ==
    Num(v.hi \div 10, ((v.hi % 10) * 26843545) + (((6 * (v.hi % 10)) + v.lo) \div 10))

NumMod10(v) == ((6 * (v.hi % 10)) + v.lo) % 10

\* the decimal digits of a non-negative integer, as character codes
RECURSIVE DecimalText(_)
DecimalText(v) ==
    IF v.hi = 0 /\ v.lo < 10 THEN <<48 + v.lo>>
    ELSE Append(DecimalText(NumDiv10(v)), 48 + NumMod10(v))

\* the text the producer of the legacy form writes for a value (no white space)
RECURSIVE JsonText(_)
RECURSIVE JsonItems(_, _, _)
RECURSIVE JsonMembers(_, _, _)
JsonText(value) ==
    CASE value.t = "null" -> <<110, 117, 108, 108>>
      [] value.t = "num" -> DecimalText(value.v)
      [] value.t = "str" -> <<34>> \o value.v \o <<34>>
      [] value.t = "arr" -> <<91>> \o JsonItems(value.v, 0, Len(value.v)) \o <<93>>
      [] value.t = "obj" -> <<123>> \o JsonMembers(value.v, 0, Len(value.v)) \o <<125>>

JsonItems(items, lo, hi) ==
    IF hi <= lo THEN <<>>
    ELSE IF hi - lo = 1 THEN JsonText(items[hi])
    ELSE JsonItems(items, lo, lo + ((hi - lo) \div 2)) \o <<44>>
         \o JsonItems(items, lo + ((hi - lo) \div 2), hi)

JsonMembers(members, lo, hi) ==
    IF hi <= lo THEN <<>>
    ELSE IF hi - lo = 1
    THEN <<34>> \o members[hi].key \o <<34, 58>> \o JsonText(members[hi].value)
    ELSE JsonMembers(members, lo, lo + ((hi - lo) \div 2)) \o <<44>>
         \o JsonMembers(members, lo + ((hi - lo) \div 2), hi)

\* the replacer of the producer: a byte array becomes { "__uint8array": [..] }
RECURSIVE legacy_replacer(_)
legacy_replacer(value) ==
    CASE value.t = "bytes" ->
            JObj(<<Member(KEY.uint8array,
                          JArr([i \in 1 .. Len(value.v) |-> JNum(N(value.v[i]))]))>>)
      [] value.t = "arr" -> JArr([i \in 1 .. Len(value.v) |-> legacy_replacer(value.v[i])])
      [] value.t = "obj" ->
            JObj([i \in 1 .. Len(value.v) |->
                    Member(value.v[i].key, legacy_replacer(value.v[i].value))])
      [] OTHER -> value

\* ---------------------------------------------------------------------------
\* Records of the codec state space
\* ---------------------------------------------------------------------------
MaxChunks == 2

MaxMembers == 2

MaxEntries == 2

Hash(b) == [i \in 1 .. HASH_SIZE |-> (b + (7 * i)) % 256]

Nonce(b) == [i \in 1 .. NONCE_SIZE |-> (b + (3 * i)) % 256]

\* sizes and instants: zero, the values of the dispatcher tests, the largest
Sizes == <<Zero, N(100), Pow2Num(48)>>

Instants == <<Zero, Num(6332, 266692608), Pow2Minus1(48)>>

\* the i-th chunk of a file; indexes below and above one varint byte
ChunkRef(i) ==
    [index |-> N(150 * (i - 1)), hash |-> Hash(i), blob_address |-> Hash(100 + i),
     nonce |-> Nonce(200 + i)]

\* files of 0 .. MaxChunks chunks, three of each
FileNodes ==
    [j \in 1 .. (3 * (MaxChunks + 1)) |->
        [type |-> "file", content_hash |-> Hash(250 + j), size |-> Sizes[(j % 3) + 1],
         created |-> Instants[(j % 3) + 1], modified |-> Instants[3 - (j % 3)],
         chunks |-> [i \in 1 .. ((j - 1) \div 3) |-> ChunkRef(i + j)]]]

\* directories without and with a group, three of each
DirNodes ==
    [j \in 1 .. 6 |->
        [type |-> "dir", smt_root |-> Hash(30 + j),
         group_id |-> IF j <= 3 THEN NoGroup ELSE GroupId(Hash(60 + j)),
         created |-> Instants[(j % 3) + 1], modified |-> Instants[3 - (j % 3)]]]

Nodes == FileNodes \o DirNodes

Roles == <<"read", "write", "admin">>

\* the i-th member of a group: wrapped keys of 0, 48 and 130 bytes
GroupMember(i) ==
    [pubkey |-> Hash(10 * i),
     encrypted_dek |-> [j \in 1 .. (CASE i % 3 = 0 -> 0 [] i % 3 = 1 -> 48 [] OTHER -> 130)
                           |-> (i + j) % 256],
     role |-> Roles[(i % 3) + 1]]

\* groups of 0 .. MaxMembers members, three of each
Groups ==
    [j \in 1 .. (3 * (MaxMembers + 1)) |->
        [id |-> Hash(j), members |-> [i \in 1 .. ((j - 1) \div 3) |-> GroupMember(i + j)]]]

\* the i-th entry of a tree: paths of 0, 3, 8, 9 and 17 bits
PathLengths == <<0, 3, 8, 9, 17>>

SmtEntry(i) ==
    [path_bits |-> [j \in 1 .. PathLengths[(i % 5) + 1] |-> (j + i) % 3 = 0],
     value |-> Hash(40 + i)]

\* trees of 0 .. MaxEntries entries, five of each
SMTs ==
    [j \in 1 .. (5 * (MaxEntries + 1)) |->
        [root |-> Hash(j), entries |-> [i \in 1 .. ((j - 1) \div 5) |-> SmtEntry(i + j)]]]

\* a node as the object the legacy producer holds
chunk_object(ref) ==
    JObj(<<Member(KEY.index, JNum(ref.index)), Member(KEY.hash, JBytes(ref.hash)),
           Member(KEY.blob_address, JBytes(ref.blob_address)),
           Member(KEY.nonce, JBytes(ref.nonce))>>)

node_object(node) ==
    IF node.type = "file"
    THEN JObj(<<Member(KEY.type, JStr(KEY.file)),
                Member(KEY.content_hash, JBytes(node.content_hash)),
                Member(KEY.size, JNum(node.size)),
                Member(KEY.created, JNum(node.created)),
                Member(KEY.modified, JNum(node.modified)),
                Member(KEY.chunks,
                       JArr([i \in 1 .. Len(node.chunks) |-> chunk_object(node.chunks[i])]))>>)
    ELSE JObj(<<Member(KEY.type, JStr(KEY.dir)),
                Member(KEY.smt_root, JBytes(node.smt_root)),
                Member(KEY.group_id,
                       IF node.group_id.present THEN JBytes(node.group_id.bytes) ELSE JNull),
                Member(KEY.created, JNum(node.created)),
                Member(KEY.modified, JNum(node.modified))>>)

\* a group as the object the legacy producer holds
member_object(member) ==
    JObj(<<Member(KEY.pubkey, JBytes(member.pubkey)),
           Member(KEY.encrypted_dek, JBytes(member.encrypted_dek)),
           Member(KEY.role, JStr(KEY[member.role]))>>)

group_object(group) ==
    JObj(<<Member(KEY.id, JBytes(group.id)),
           Member(KEY.members,
                  JArr([i \in 1 .. Len(group.members) |-> member_object(group.members[i])]))>>)

\* the values a legacy producer serialises: nodes, values that are no node,
\* and groups
LegacyValues ==
    [i \in 1 .. Len(Nodes) |-> node_object(Nodes[i])]
        \o <<JNull, JNum(N(7)), JArr(<<>>), JBytes(<<90, 75>>),
              JArr(<<JBytes(<<1, 255>>), JArr(<<JBytes(<<>>)>>)>>)>>
        \o [i \in 1 .. Len(Groups) |-> group_object(Groups[i])]

\* texts that carry the key without the shape: a length, and numbers above 255
OddDocuments ==
    <<JObj(<<Member(KEY.uint8array, JNum(N(3)))>>),
      JObj(<<Member(KEY.size, JNull), Member(KEY.uint8array, JArr(<<JNum(N(300)), JNull>>))>>),
      JObj(<<Member(KEY.uint8array, JStr(KEY.file))>>)>>

\* the documents JSON.parse is given in the model
JsonDocuments ==
    [i \in 1 .. Len(LegacyValues) |-> legacy_replacer(LegacyValues[i])] \o OddDocuments

\* ---------------------------------------------------------------------------
\* codec/node.ts: decode_node
\* ---------------------------------------------------------------------------
\* new TextDecoder().decode(buf): a leading byte order mark is dropped, a byte
\* outside ASCII does not give an ASCII character (written as U+FFFD)
text_decode(buf) ==
    IF Len(buf) >= 3 /\ buf[1] = 239 /\ buf[2] = 187 /\ buf[3] = 191
    THEN Slice(buf, 3, Len(buf))
    ELSE [i \in 1 .. Len(buf) |-> IF buf[i] < 128 THEN buf[i] ELSE 65533]

\* JSON.parse without reviver: the document whose text this is, or a SyntaxError
json_document(matches) ==
    IF matches = {} THEN Fail("SyntaxError")
    ELSE [err |-> "none", value |-> JsonDocuments[CHOOSE i \in matches : TRUE]]

json_parse(text) ==
    json_document({i \in 1 .. Len(JsonDocuments) : JsonText(JsonDocuments[i]) = text})

\* v.__uint8array: the last member of that name
property(members, key) ==
    members[CHOOSE i \in 1 .. Len(members) :
                /\ members[i].key = key
                /\ \A j \in (i + 1) .. Len(members) : members[j].key # key].value

\* new Uint8Array(x): the elements of an array modulo 256 (0 for what is no
\* number), x zero bytes for a number, a copy of a byte array, else empty
uint8array_from(x) ==
    CASE x.t = "arr" ->
            [i \in 1 .. Len(x.v) |-> IF x.v[i].t = "num" THEN x.v[i].v.lo % 256 ELSE 0]
      [] x.t = "num" -> [i \in 1 .. ToIndex(x.v) |-> 0]
      [] x.t = "bytes" -> x.v
      [] OTHER -> <<>>

\* the reviver of decode_node, applied to a value whose parts are revived
reviver(v) ==
    IF v.t = "obj" /\ \E i \in 1 .. Len(v.v) : v.v[i].key = KEY.uint8array
    THEN JBytes(uint8array_from(property(v.v, KEY.uint8array)))
    ELSE v

\* JSON.parse calls the reviver bottom-up, for every member, item and the root
RECURSIVE revive(_)
revive(value) ==
    CASE value.t = "arr" ->
            reviver(JArr([i \in 1 .. Len(value.v) |-> revive(value.v[i])]))
      [] value.t = "obj" ->
            reviver(JObj([i \in 1 .. Len(value.v) |->
                            Member(value.v[i].key, revive(value.v[i].value))]))
      [] OTHER -> reviver(value)

legacy_value(parsed) ==
    IF parsed.err # "none" THEN parsed
    ELSE [err |-> "none", value |-> revive(parsed.value)]

\* the same, with a fall back to the legacy form when the envelope is refused
decode_node_with_fallback(buf) ==
    IF has_magic(buf) /\ read_envelope(buf).err = "none"
    THEN node_payload(read_envelope(buf))
    ELSE legacy_value(json_parse(text_decode(buf)))

decode_node(buf) ==
    IF has_magic(buf) THEN node_payload(read_envelope(buf))
    ELSE legacy_value(json_parse(text_decode(buf)))

\* ---------------------------------------------------------------------------
\* The record codecs as a state machine: a record is encoded, or a buffer
\* arrives from elsewhere, and a decoder is applied to the bytes
\* ---------------------------------------------------------------------------
Encoded(encoder, value, bytes) ==
    /\ pc' = "encoded"
    /\ obj' = [encoder |-> encoder, decoder |-> "none"]
    /\ input' = [value |-> value]
    /\ wire' = bytes
    /\ output' = None

EncodeFileNode ==
    /\ pc = "idle"
    /\ \E i \in DOMAIN FileNodes :
        Encoded("file_node", FileNodes[i], encode_file_node(FileNodes[i]))

EncodeDirNode ==
    /\ pc = "idle"
    /\ \E i \in DOMAIN DirNodes :
        Encoded("dir_node", DirNodes[i], encode_dir_node(DirNodes[i]))

EncodeGroup ==
    /\ pc = "idle"
    /\ \E i \in DOMAIN Groups : Encoded("group", Groups[i], encode_group(Groups[i]))

EncodeSmt ==
    /\ pc = "idle"
    /\ \E i \in DOMAIN SMTs : Encoded("smt", SMTs[i], encode_smt(SMTs[i]))

EncodeNode ==
    /\ pc = "idle"
    /\ \E i \in DOMAIN Nodes : Encoded("node", Nodes[i], encode_node(Nodes[i]))

\* the byte order mark a text file may start with
BOM == <<239, 187, 191>>

\* a legacy document arrives as text
ReceiveLegacy ==
    /\ pc = "idle"
    /\ \E i \in DOMAIN JsonDocuments, bom \in BOOLEAN :
        /\ pc' = "received"
        /\ obj' = [encoder |-> "legacy", decoder |-> "none"]
        /\ input' = [document |-> i, bom |-> bom]
        /\ wire' = (IF bom THEN BOM ELSE <<>>) \o JsonText(JsonDocuments[i])
        /\ output' = None

\* buffers that are neither: with the magic and no valid envelope behind it,
\* envelopes of other records, and bytes that are no text of the legacy form
ForeignBuffers ==
    {<<>>, <<90>>, <<75, 90>>, <<123>>, <<195, 169>>, <<110, 117, 108>>,
     MAGIC, MAGIC \o JsonText(JNull), MAGIC \o JsonText(JsonDocuments[1]),
     FlipBit(encode_node(Nodes[1]), 2, 0), FlipBit(encode_node(Nodes[1]), 40, 7),
     Slice(encode_node(Nodes[1]), 0, 40),
     write_envelope(TAG_FILE_NODE, <<>>),
     write_envelope(TAG_DIR_NODE, Slice(Hash(1), 0, 20)),
     write_envelope(TAG_COMPRESSED_BLOB, <<0, 0>>),
     write_envelope(0, JsonText(JNull))}

ReceiveBytes ==
    /\ pc = "idle"
    /\ \E bytes \in ForeignBuffers :
        /\ pc' = "received"
        /\ obj' = [encoder |-> "foreign", decoder |-> "none"]
        /\ input' = None
        /\ wire' = bytes
        /\ output' = None

Decoded(decoder, result) ==
    /\ pc' = "decoded"
    /\ obj' = [obj EXCEPT !.decoder = decoder]
    /\ output' = result
    /\ UNCHANGED <<input, wire>>

DecodeFileNode ==
    /\ pc \in {"encoded", "received"}
    /\ Decoded("file_node", decode_file_node(wire))

DecodeDirNode ==
    /\ pc \in {"encoded", "received"}
    /\ Decoded("dir_node", decode_dir_node(wire))

DecodeGroup ==
    /\ pc \in {"encoded", "received"}
    /\ Decoded("group", decode_group(wire))

DecodeSmt ==
    /\ pc \in {"encoded", "received"}
    /\ Decoded("smt", decode_smt(wire))

DecodeNode ==
    /\ pc \in {"encoded", "received"}
    /\ Decoded("node", decode_node(wire))

NextCodec ==
    \/ EncodeFileNode \/ EncodeDirNode \/ EncodeGroup \/ EncodeSmt \/ EncodeNode
    \/ ReceiveLegacy \/ ReceiveBytes
    \/ DecodeFileNode \/ DecodeDirNode \/ DecodeGroup \/ DecodeSmt \/ DecodeNode

SpecCodec == InitIdle /\ [][NextCodec]_vars

\* the decoder applied is the one that belongs to the encoder that wrote the bytes
Paired ==
    \/ obj.decoder = obj.encoder
    \/ obj.encoder = "node" /\ obj.decoder = input.value.type \o "_node"
    \/ obj.decoder = "node" /\ obj.encoder \in {"file_node", "dir_node"}

\* C2: for every valid FileNode, DirNode (with or without group id), Group and
\* SMTData, decoding what the encoder wrote returns a value equal to the input:
\* every field, the node type, and the chunks, members and entries in the
\* same order and number (zero included).
RecordRoundTrip ==
    (pc = "decoded" /\ obj.encoder \in {"file_node", "dir_node", "group", "smt", "node"}
        /\ Paired) =>
        /\ output.err = "none"
        /\ output.value = input.value
        /\ obj.decoder \in {"file_node", "dir_node", "node"} =>
            output.value.type = input.value.type
        /\ obj.decoder = "file_node" =>
            /\ Len(output.value.chunks) = Len(input.value.chunks)
            /\ \A i \in 1 .. Len(input.value.chunks) :
                output.value.chunks[i] = input.value.chunks[i]
        /\ obj.decoder = "group" =>
            /\ Len(output.value.members) = Len(input.value.members)
            /\ \A i \in 1 .. Len(input.value.members) :
                output.value.members[i] = input.value.members[i]
        /\ obj.decoder = "smt" =>
            /\ Len(output.value.entries) = Len(input.value.entries)
            /\ \A i \in 1 .. Len(input.value.entries) :
                output.value.entries[i] = input.value.entries[i]

\* a file of two different chunks, with an instant above 2^32, decoded by
\* decode_file_node to the value that was encoded
RecordRoundTripWitness ==
    /\ pc = "decoded"
    /\ obj.encoder = "file_node"
    /\ obj.decoder = "file_node"
    /\ Len(input.value.chunks) >= 2
    /\ input.value.chunks[1] # input.value.chunks[2]
    /\ input.value.created.hi > 16
    /\ output.err = "none"
    /\ output.value = input.value

\* what the binary path owes for a buffer that starts with the magic: the
\* envelope error if there is one, else the node of the payload by its tag
BinaryOutcome(buf) ==
    IF ExpectedEnvelopeError(buf) # "none" THEN Fail(ExpectedEnvelopeError(buf))
    ELSE CASE buf[4] = 1 -> decode_file_node_payload(Slice(buf, 4, Len(buf) - 4))
           [] buf[4] = 2 -> decode_dir_node_payload(Slice(buf, 4, Len(buf) - 4))
           [] OTHER -> Fail("BadTag")

SameOutcome(a, b) == a.err = b.err /\ (a.err = "none" => a.value = b.value)

\* C10: decode_node takes the binary path exactly when the input starts with
\* 0x5A 0x4B and then never falls back to the legacy form (an envelope error
\* is surfaced); every other input is parsed as the legacy text, each object
\* of the __uint8array shape becoming a byte array; and encode_node(n) starts
\* with the magic bytes for every node n.
NodeDispatch ==
    /\ (pc = "decoded" /\ obj.decoder = "node") =>
        IF Len(wire) >= 2 /\ wire[1] = 90 /\ wire[2] = 75
        THEN SameOutcome(output, BinaryOutcome(wire))
        ELSE /\ obj.encoder = "foreign" => output.err = "SyntaxError"
             /\ obj.encoder = "legacy" =>
                /\ output.err = "none"
                /\ input.document <= Len(LegacyValues) =>
                    output.value = LegacyValues[input.document]
    /\ (pc = "encoded" /\ obj.encoder = "node") =>
        /\ Len(wire) >= 2
        /\ wire[1] = 90
        /\ wire[2] = 75

\* the legacy text of a file with chunks: the byte arrays of the node and of
\* its chunks come back as byte arrays
NodeDispatchWitness ==
    /\ pc = "decoded"
    /\ obj.decoder = "node"
    /\ obj.encoder = "legacy"
    /\ wire[1] = 123
    /\ input.document <= Len(FileNodes)
    /\ Len(FileNodes[input.document].chunks) >= 2
    /\ output.err = "none"
    /\ output.value = node_object(FileNodes[input.document])
    /\ output.value.v[2].value = JBytes(FileNodes[input.document].content_hash)
    /\ output.value.v[6].value.v[2].v[4].value = JBytes(FileNodes[input.document].chunks[2].nonce)

\* ---------------------------------------------------------------------------
\* SymbolTree: canonical Huffman code lengths for the 256 byte values
\* ---------------------------------------------------------------------------
Symbols == 0 .. 255

MAX_CODE_LEN == 15

\* the queue of leaves as created, in symbol order, without the sort
unsorted_leaves(frequencies) ==
    LET active == SelectSeq([k \in 1 .. 256 |-> k - 1], LAMBDA i : frequencies[i] > 0)
    IN [k \in 1 .. Len(active) |->
            [freq |-> frequencies[active[k]], tree |-> [symbol |-> active[k]]]]

\* the queue of leaves after q.sort((a, b) => a.freq - b.freq): the sort is
\* stable and the leaves are created in symbol order
sorted_leaves(frequencies) ==
    LET active == SelectSeq([k \in 1 .. 256 |-> k - 1], LAMBDA i : frequencies[i] > 0)
        before(t, s) == \/ frequencies[t] < frequencies[s]
                        \/ frequencies[t] = frequencies[s] /\ t < s
        sorted == SortSeq(active, before)
    IN [k \in 1 .. Len(sorted) |->
            [freq |-> frequencies[sorted[k]], tree |-> [symbol |-> sorted[k]]]]

\* the while loop of build_tree: take the two cheapest, insert their parent
\* before the first entry whose frequency is greater
RECURSIVE merge_queue(_)
merge_queue(q) ==
    IF Len(q) <= 1 THEN q
    ELSE LET l == q[1]
             r == q[2]
             rest == SubSeq(q, 3, Len(q))
             parent == [freq |-> l.freq + r.freq,
                        tree |-> [left |-> l.tree, right |-> r.tree]]
             stop == {k \in 1 .. Len(rest) : rest[k].freq > parent.freq}
             i == IF stop = {} THEN Len(rest)
                  ELSE (CHOOSE k \in stop : \A j \in stop : k <= j) - 1
             next == SubSeq(rest, 1, i) \o <<parent>> \o SubSeq(rest, i + 1, Len(rest))
         IN IF next = next THEN merge_queue(next) ELSE next

\* walk: the set of (symbol, stored length) pairs below a node
RECURSIVE walk(_, _)
walk(node, depth) ==
    IF "symbol" \in DOMAIN node
    THEN {<<node.symbol, Min(depth, 15)>>}
    ELSE walk(node.left, depth + 1) \cup walk(node.right, depth + 1)

build_tree(frequencies) ==
    LET q == merge_queue(sorted_leaves(frequencies))
        w == IF Len(q) > 0 THEN walk(q[1].tree, 0) ELSE {}
    IN [s \in Symbols |->
            IF \E p \in w : p[1] = s THEN (CHOOSE p \in w : p[1] = s)[2] ELSE 0]

\* kraft, scaled by 2^max_len: the sum of 2^(max_len - length) over the
\* symbols that have a code (all lengths are at most max_len here)
RECURSIVE kraft_scaled(_, _, _)
kraft_scaled(lengths, max_len, len) ==
    IF len > max_len THEN 0
    ELSE (Cardinality({i \in Symbols : lengths[i] = len}) * (2 ^ (max_len - len)))
         + kraft_scaled(lengths, max_len, len + 1)

\* the compensation pass of clamp_lengths over the symbols lo .. hi - 1
RECURSIVE lengthen(_, _, _, _)
lengthen(lengths, max_len, lo, hi) ==
    IF hi - lo = 1
    THEN IF /\ kraft_scaled(lengths, max_len, 1) > 2 ^ max_len
            /\ lengths[lo] > 0
            /\ lengths[lo] < max_len
         THEN [lengths EXCEPT ![lo] = @ + 1]
         ELSE lengths
    ELSE LET mid == lo + ((hi - lo) \div 2)
             left == lengthen(lengths, max_len, lo, mid)
         IN IF left = left THEN lengthen(left, max_len, mid, hi) ELSE left

RECURSIVE clamp_lengths(_, _)
clamp_lengths(lengths, max_len) ==
    IF \A i \in Symbols : lengths[i] <= max_len
    THEN lengths
    ELSE LET clamped == [i \in Symbols |-> Min(lengths[i], max_len)]
         IN clamp_lengths(lengthen(clamped, max_len, 0, 256), max_len)

from_frequencies(frequencies) ==
    LET active == {i \in Symbols : frequencies[i] > 0}
    IN IF active = {} THEN [i \in Symbols |-> 0]
       ELSE IF Cardinality(active) = 1
            THEN [i \in Symbols |-> IF i \in active THEN 1 ELSE 0]
            ELSE clamp_lengths(build_tree(frequencies), MAX_CODE_LEN)

\* symbols.sort((a, b) => a.length - b.length || a.symbol - b.symbol)
sorted_symbols(lengths) ==
    LET coded == SelectSeq([k \in 1 .. 256 |-> k - 1], LAMBDA i : lengths[i] > 0)
        before(t, s) == \/ lengths[t] < lengths[s]
                        \/ lengths[t] = lengths[s] /\ t < s
    IN SortSeq(coded, before)

\* the canonical code assignment over sorted[lo + 1 .. hi]; st carries code,
\* prev_len and the table built so far (x << n is x * 2^n below 2^31)
RECURSIVE assign_codes(_, _, _, _, _)
assign_codes(sorted, lengths, lo, hi, st) ==
    IF hi - lo = 1
    THEN LET s == sorted[hi]
             code == IF st.prev_len > 0
                     THEN (st.code + 1) * (2 ^ (lengths[s] - st.prev_len))
                     ELSE st.code
         IN [code |-> code, prev_len |-> lengths[s],
             table |-> [st.table EXCEPT ![s] = [code |-> code, length |-> lengths[s]]]]
    ELSE LET mid == lo + ((hi - lo) \div 2)
             left == assign_codes(sorted, lengths, lo, mid, st)
         IN IF left = left THEN assign_codes(sorted, lengths, mid, hi, left) ELSE left

build_encode_table(lengths) ==
    LET sorted == sorted_symbols(lengths)
        start == [code |-> 0, prev_len |-> 0,
                  table |-> [i \in Symbols |-> [code |-> 0, length |-> 0]]]
    IN IF Len(sorted) = 0 THEN start.table
       ELSE assign_codes(sorted, lengths, 0, Len(sorted), start).table

RECURSIVE OrBits(_, _, _)
OrBits(a, b, n) ==
    IF n = 0 THEN 0
    ELSE Max(a % 2, b % 2) + (2 * OrBits(a \div 2, b \div 2, n - 1))

\* (length << 16) | code, for length < 2^8 and code < 2^24
decode_key(length, code) ==
    (OrBits(length, code \div 65536, 8) * 65536) + (code % 65536)

\* the decode map, key -> symbol; a later symbol replaces an earlier one
\* stored under the same key
decode_map_of(encode_table) ==
    LET key == [i \in Symbols |->
                  IF encode_table[i].length > 0
                  THEN decode_key(encode_table[i].length, encode_table[i].code)
                  ELSE -1]
        keys == {key[i] : i \in Symbols} \ {-1}
    IN [k \in keys |->
          CHOOSE i \in Symbols : key[i] = k /\ \A j \in Symbols : key[j] = k => j <= i]

\* build_decode_table on a tree without tables
build_decode_table(lengths) == decode_map_of(build_encode_table(lengths))

\* the bits written for data[lo + 1 .. hi]: bit b = length - 1 .. 0 of each code
RECURSIVE code_bits(_, _, _, _)
code_bits(table, data, lo, hi) ==
    IF hi <= lo THEN <<>>
    ELSE IF hi - lo = 1
    THEN LET e == table[data[hi]]
         IN [j \in 1 .. e.length |-> (e.code \div (2 ^ (e.length - j))) % 2]
    ELSE LET mid == lo + ((hi - lo) \div 2)
         IN code_bits(table, data, lo, mid) \o code_bits(table, data, mid, hi)

\* bits[floor(bit_pos / 8)] |= 0x80 >> (bit_pos % 8), for every set bit
bits_to_bytes(bs) ==
    LET bit(p) == IF p < Len(bs) THEN bs[p + 1] ELSE 0
    IN [j \in 1 .. ((Len(bs) + 7) \div 8) |->
          LET p == 8 * (j - 1)
          IN (bit(p) * 128) + (bit(p + 1) * 64) + (bit(p + 2) * 32) + (bit(p + 3) * 16)
             + (bit(p + 4) * 8) + (bit(p + 5) * 4) + (bit(p + 6) * 2) + bit(p + 7)]

\* the two passes of SymbolTree.encode over the encode table
encode_with(table, data) ==
    IF \E i \in 1 .. Len(data) : table[data[i]].length = 0
    THEN Fail("UncodedSymbol")
    ELSE LET bs == code_bits(table, data, 0, Len(data))
         IN [err |-> "none", bits |-> bits_to_bytes(bs), bit_count |-> Len(bs)]

\* SymbolTree.encode on a tree without tables
encode(lengths, data) == encode_with(build_encode_table(lengths), data)

\* (bits[byte_idx] >> bit_idx) & 1; a byte past the end reads as undefined,
\* which shifts to 0
stream_bit(bits, p) ==
    IF p \div 8 < Len(bits) THEN (bits[(p \div 8) + 1] \div (2 ^ (7 - (p % 8)))) % 2 ELSE 0

RECURSIVE stream_code(_, _, _)
stream_code(bits, bit_pos, len) ==
    IF len = 0 THEN 0
    ELSE (2 * stream_code(bits, bit_pos, len - 1)) + stream_bit(bits, bit_pos + len - 1)

\* the while loop of decode; "Diverges" is the loop that neither consumes a
\* bit nor throws (max_len = 0 with bits and output still outstanding)
RECURSIVE decode_loop(_, _, _, _, _, _, _)
decode_loop(decode_map, max_len, bits, bit_count, expected_length, bit_pos, out) ==
    IF ~(bit_pos < bit_count /\ Len(out) < expected_length)
    THEN IF Len(out) # expected_length THEN Fail("LengthMismatch")
         ELSE [err |-> "none", data |-> out]
    ELSE LET last == Min(max_len, bit_count - bit_pos)
             hits == {len \in 1 .. last :
                        decode_key(len, stream_code(bits, bit_pos, len))
                            \in DOMAIN decode_map}
         IN IF hits = {}
            THEN IF last > 0 THEN Fail("BadCode") ELSE Fail("Diverges")
            ELSE LET len == CHOOSE l \in hits : \A m \in hits : l <= m
                     entry == decode_map[decode_key(len, stream_code(bits, bit_pos, len))]
                     next == Append(out, entry)
                 IN IF next = next
                    THEN decode_loop(decode_map, max_len, bits, bit_count, expected_length,
                                     bit_pos + len, next)
                    ELSE Fail("none")

\* SymbolTree.decode once the decode map is at hand
decode_with(decode_map, lengths, bits, bit_count, expected_length) ==
    LET max_len == CHOOSE m \in {lengths[i] : i \in Symbols} :
                       \A i \in Symbols : lengths[i] <= m
    IN decode_loop(decode_map, max_len, bits, bit_count, expected_length, 0, <<>>)

\* SymbolTree.decode on a tree without tables
decode(lengths, bits, bit_count, expected_length) ==
    decode_with(build_decode_table(lengths), lengths, bits, bit_count, expected_length)

\* ---------------------------------------------------------------------------
\* Dictionary: substitution strings plus a SymbolTree; a dictionary is the
\* record [strings, lengths]
\* ---------------------------------------------------------------------------
ESCAPE_BYTE == 0

MAX_STRINGS == 255

GRAM_SIZES == <<4, 8, 16, 32>>

\* the slices train takes from one sample for one gram size, in order
sample_ngrams(sample, gram_size) ==
    IF Len(sample) < gram_size THEN <<>>
    ELSE [i \in 1 .. (Len(sample) - gram_size + 1) |-> SubSeq(sample, i, i + gram_size - 1)]

\* all slices of samples[lo + 1 .. hi] in the order train visits them
RECURSIVE ngrams(_, _, _)
ngrams(samples, lo, hi) ==
    IF hi <= lo THEN <<>>
    ELSE IF hi - lo = 1
    THEN sample_ngrams(samples[hi], GRAM_SIZES[1]) \o sample_ngrams(samples[hi], GRAM_SIZES[2])
         \o sample_ngrams(samples[hi], GRAM_SIZES[3]) \o sample_ngrams(samples[hi], GRAM_SIZES[4])
    ELSE LET mid == lo + ((hi - lo) \div 2)
         IN ngrams(samples, lo, mid) \o ngrams(samples, mid, hi)

\* the Map keeps one entry per distinct slice, in order of first insertion;
\* the sort by count * length is stable
train_strings(samples) ==
    LET w == ngrams(samples, 0, Len(samples))
        firsts == SelectSeq([k \in 1 .. Len(w) |-> k],
                            LAMBDA k : \A j \in 1 .. (k - 1) : w[j] # w[k])
        count == [k \in 1 .. Len(w) |-> Cardinality({j \in 1 .. Len(w) : w[j] = w[k]})]
        score(k) == count[k] * Len(w[k])
        candidates == SortSeq(SelectSeq(firsts, LAMBDA k : count[k] >= 2),
                              LAMBDA a, b : \/ score(a) > score(b)
                                            \/ score(a) = score(b) /\ a < b)
    IN IF count = count
       THEN [k \in 1 .. Min(Len(candidates), MAX_STRINGS) |-> w[candidates[k]]]
       ELSE <<>>

\* the outer loop of apply_substitution from position i (0-based)
RECURSIVE substitute_from(_, _, _, _)
substitute_from(data, strings, i, result) ==
    IF i >= Len(data) THEN result
    ELSE LET matches == {s \in 1 .. Len(strings) :
                            /\ i + Len(strings[s]) <= Len(data)
                            /\ SubSeq(data, i + 1, i + Len(strings[s])) = strings[s]}
             s == CHOOSE s \in matches : \A t \in matches : s <= t
             next == IF matches # {} THEN result \o <<ESCAPE_BYTE, s>>
                     ELSE IF data[i + 1] = ESCAPE_BYTE THEN result \o <<ESCAPE_BYTE, 0>>
                     ELSE Append(result, data[i + 1])
             step == IF matches # {} THEN Len(strings[s]) ELSE 1
         IN IF next = next THEN substitute_from(data, strings, i + step, next) ELSE next

\* a substitution that takes the longest of the strings matching at i
RECURSIVE substitute_longest_from(_, _, _, _)
substitute_longest_from(data, strings, i, result) ==
    IF i >= Len(data) THEN result
    ELSE LET matches == {s \in 1 .. Len(strings) :
                            /\ i + Len(strings[s]) <= Len(data)
                            /\ SubSeq(data, i + 1, i + Len(strings[s])) = strings[s]}
             s == CHOOSE s \in matches :
                      \A t \in matches : Len(strings[s]) >= Len(strings[t])
         IN IF matches # {}
            THEN substitute_longest_from(data, strings, i + Len(strings[s]),
                                         result \o <<ESCAPE_BYTE, s>>)
            ELSE substitute_longest_from(data, strings, i + 1,
                     IF data[i + 1] = ESCAPE_BYTE THEN result \o <<ESCAPE_BYTE, 0>>
                     ELSE Append(result, data[i + 1]))

apply_substitution_longest(data, strings) ==
    substitute_longest_from(data, strings, 0, <<>>)

apply_substitution(data, strings) == substitute_from(data, strings, 0, <<>>)

\* the number of bytes equal to b at the positions lo + 1 .. hi of the parts
RECURSIVE count_byte(_, _, _, _)
count_byte(parts, b, lo, hi) ==
    IF hi <= lo THEN 0
    ELSE IF hi - lo = 1
    THEN Cardinality({k \in 1 .. Len(parts) : Len(parts[k]) >= hi /\ parts[k][hi] = b})
    ELSE LET mid == lo + ((hi - lo) \div 2)
         IN count_byte(parts, b, lo, mid) + count_byte(parts, b, mid, hi)

\* Dictionary.train
train(samples) ==
    IF Len(samples) = 0
    THEN [strings |-> <<>>, lengths |-> from_frequencies([i \in Symbols |-> 0])]
    ELSE LET strings == train_strings(samples)
             substituted_parts == [k \in 1 .. Len(samples) |->
                                      apply_substitution(samples[k], strings)]
             seen == UNION {{substituted_parts[k][i] : i \in 1 .. Len(substituted_parts[k])} :
                             k \in 1 .. Len(samples)}
             longest == Cardinality(UNION {1 .. Len(substituted_parts[k]) :
                                             k \in 1 .. Len(samples)})
             frequencies == [b \in Symbols |->
                                IF b \in seen
                                THEN count_byte(substituted_parts, b, 0, longest)
                                ELSE 0]
         IN IF substituted_parts = substituted_parts
            THEN [strings |-> strings, lengths |-> from_frequencies(frequencies)]
            ELSE [strings |-> strings, lengths |-> frequencies]

\* the result of compress: substituted_len(varint), bit_count(varint), bits
pack_compressed(substituted_len, e) ==
    IF e.err # "none" THEN e
    ELSE [err |-> "none",
          data |-> encode_varint(N(substituted_len)) \o encode_varint(N(e.bit_count))
                   \o e.bits]

compress_substituted(dict, substituted) ==
    pack_compressed(Len(substituted), encode(dict.lengths, substituted))

\* Dictionary.compress
compress(dict, data) ==
    compress_substituted(dict, apply_substitution(data, dict.strings))

\* the loop of reverse_substitution from position i (0-based); strings[idx - 1]
\* of an index past the list is undefined and reading its length throws
RECURSIVE reverse_from(_, _, _, _)
reverse_from(data, strings, i, result) ==
    IF i >= Len(data) THEN [err |-> "none", data |-> result]
    ELSE IF data[i + 1] = ESCAPE_BYTE /\ i + 1 < Len(data)
    THEN LET idx == data[i + 2]
         IN IF idx = 0
            THEN reverse_from(data, strings, i + 2, Append(result, 0))
            ELSE IF idx > Len(strings) THEN Fail("TypeError")
            ELSE reverse_from(data, strings, i + 2, result \o strings[idx])
    ELSE reverse_from(data, strings, i + 1, Append(result, data[i + 1]))

reverse_substitution(data, strings) == reverse_from(data, strings, 0, <<>>)

\* decompress once the tree has decoded the substituted bytes
reverse_decoded(substituted, strings) ==
    IF substituted.err # "none" THEN substituted
    ELSE reverse_substitution(substituted.data, strings)

\* decompress once bit_count is read
decompress_bits(dict, compressed, sl, bc) ==
    IF bc.err # "none" THEN bc
    ELSE reverse_decoded(decode(dict.lengths,
                                Slice(compressed, sl.len + bc.len, Len(compressed)),
                                ToIndex(bc.value), ToIndex(sl.value)),
                         dict.strings)

\* decompress once sub_len is read
decompress_counts(dict, compressed, sl) ==
    IF sl.err # "none" THEN sl
    ELSE decompress_bits(dict, compressed, sl, decode_varint(compressed, sl.len))

\* Dictionary.decompress
decompress(dict, compressed, original_size) ==
    decompress_counts(dict, compressed, decode_varint(compressed, 0))

\* ---------------------------------------------------------------------------
\* Content type sniffing and the blob pipeline.  The options are the record
\* [dictionary, fallback_compress, fallback_decompress]; an injected
\* compressor is a table from the buffers it is called on to its results
\* ---------------------------------------------------------------------------
CONTENT_UNKNOWN == 0

CONTENT_TEXT_UTF8 == 1

CONTENT_JSON == 2

CONTENT_BINARY == 3

\* a detector that counts the bytes from 0x80 on as not printable
detect_content_type_ascii(data) ==
    IF Len(data) = 0 THEN CONTENT_BINARY
    ELSE IF /\ data[1] \in {123, 91}
            /\ \A i \in 1 .. Min(Len(data), 64) : data[i] # 0
    THEN CONTENT_JSON
    ELSE IF /\ \A i \in 1 .. Min(Len(data), 512) : data[i] # 0
            /\ Cardinality({i \in 1 .. Min(Len(data), 512) :
                               \/ data[i] >= 32 /\ data[i] <= 126
                               \/ data[i] \in {9, 10, 13}}) * 10
                  > Min(Len(data), 512) * 9
    THEN CONTENT_TEXT_UTF8
    ELSE CONTENT_BINARY

detect_content_type(data) ==
    IF Len(data) = 0 THEN CONTENT_BINARY
    ELSE IF /\ data[1] \in {123, 91}
            /\ \A i \in 1 .. Min(Len(data), 64) : data[i] # 0
    THEN CONTENT_JSON
    ELSE LET sample_len == Min(Len(data), 512)
             has_null == \E i \in 1 .. sample_len : data[i] = 0
             is_printable(b) == \/ b >= 32 /\ b <= 126
                                \/ b \in {9, 10, 13}
                                \/ b >= 128
             printable == Cardinality({i \in 1 .. sample_len :
                              /\ \A j \in 1 .. i : data[j] # 0
                              /\ is_printable(data[i])})
         IN IF ~has_null /\ printable * 10 > sample_len * 9
            THEN CONTENT_TEXT_UTF8
            ELSE CONTENT_BINARY

METHOD_NONE == 0

METHOD_DEFLATE == 1

METHOD_DICTIONARY == 2

METHOD_DICT_DEFLATE == 3

NoDictionary == [absent |-> TRUE]

NoCompressor == [absent |-> TRUE]

HasDictionary(opts) == "absent" \notin DOMAIN opts.dictionary

HasCompressor(opts) == "absent" \notin DOMAIN opts.fallback_compress

\* a call of the injected compressor
fallback_compress(opts, data) == opts.fallback_compress.table[data]

\* a call of the injected decompressor: "inverse" returns the buffer whose
\* compression is data, whatever size it is told; "identity" returns data
fallback_decompress(opts, data, original_size) ==
    LET table == IF HasCompressor(opts) THEN opts.fallback_compress.table ELSE <<>>
        origins == {x \in DOMAIN table : table[x].err = "none" /\ table[x].data = data}
    IN IF opts.fallback_decompress = "inverse" /\ origins # {}
       THEN [err |-> "none", data |-> CHOOSE x \in origins : TRUE]
       ELSE [err |-> "none", data |-> data]

\* a negotiation that adopts the compressor's output whatever its length and
\* never reverts to the plaintext
negotiate_adopt_any(plaintext, opts) ==
    LET deflated == fallback_compress(opts, plaintext)
    IN IF HasCompressor(opts) /\ deflated.err = "none"
       THEN [method |-> METHOD_DEFLATE, data |-> deflated.data]
       ELSE [method |-> METHOD_NONE, data |-> plaintext]

\* a trial: adopt the result under the given method when it succeeded and is
\* strictly shorter than the best so far
adopt(best, method, result) ==
    IF result.err = "none" /\ Len(result.data) < Len(best.data)
    THEN [method |-> method, data |-> result.data]
    ELSE best

\* a dictionary trial that runs whatever the content type is
try_dictionary_any_content(plaintext, opts, best) ==
    IF HasDictionary(opts)
    THEN adopt(best, METHOD_DICTIONARY, compress(opts.dictionary, plaintext))
    ELSE best

\* the dictionary trial
try_dictionary(plaintext, opts, best) ==
    IF /\ HasDictionary(opts)
       /\ detect_content_type(plaintext) \in {CONTENT_TEXT_UTF8, CONTENT_JSON}
    THEN adopt(best, METHOD_DICTIONARY, compress(opts.dictionary, plaintext))
    ELSE best

\* the compressor on the plaintext, unless its call on the dictionary output
\* threw
try_raw(plaintext, opts, best, on_top) ==
    IF on_top.err # "none" THEN best
    ELSE adopt(adopt(best, METHOD_DICT_DEFLATE, on_top), METHOD_DEFLATE,
               fallback_compress(opts, plaintext))

\* the compressor trials, inside one try block
try_fallback(plaintext, opts, best) ==
    IF ~HasCompressor(opts) THEN best
    ELSE IF best.method = METHOD_DICTIONARY /\ HasDictionary(opts)
    THEN try_raw(plaintext, opts, best, fallback_compress(opts, best.data))
    ELSE adopt(best, METHOD_DEFLATE, fallback_compress(opts, plaintext))

\* if nothing helped, store uncompressed
revert_if_longer(plaintext, best) ==
    IF Len(best.data) >= Len(plaintext)
    THEN [method |-> METHOD_NONE, data |-> plaintext]
    ELSE best

\* the negotiation of compress_blob: the pair (best_method, best_data)
negotiate(plaintext, opts) ==
    revert_if_longer(plaintext,
        try_fallback(plaintext, opts,
            try_dictionary(plaintext, opts, [method |-> METHOD_NONE, data |-> plaintext])))

\* method(1), content_type(1), original_size(varint), compressed_len(varint), data
blob_payload(plaintext, best) ==
    <<best.method, detect_content_type(plaintext)>>
        \o encode_varint(N(Len(plaintext)))
        \o encode_varint(N(Len(best.data)))
        \o best.data

compress_blob(plaintext, opts) ==
    write_envelope(TAG_COMPRESSED_BLOB, blob_payload(plaintext, negotiate(plaintext, opts)))

\* a switch that treats an unknown method as stored data
dispatch_method_default_none(method, data, original_size, opts) ==
    CASE method = METHOD_DEFLATE ->
            IF opts.fallback_decompress = "absent"
            THEN Fail("MissingCollaborator")
            ELSE fallback_decompress(opts, data, original_size)
      [] method = METHOD_DICTIONARY ->
            IF ~HasDictionary(opts) THEN Fail("MissingCollaborator")
            ELSE decompress(opts.dictionary, data, original_size)
      [] method = METHOD_DICT_DEFLATE ->
            IF opts.fallback_decompress = "absent" \/ ~HasDictionary(opts)
            THEN Fail("MissingCollaborator")
            ELSE decompress(opts.dictionary, fallback_decompress(opts, data, Zero).data,
                            original_size)
      [] OTHER -> [err |-> "none", data |-> data]

\* the switch of decompress_blob
dispatch_method(method, data, original_size, opts) ==
    CASE method = METHOD_NONE -> [err |-> "none", data |-> data]
      [] method = METHOD_DEFLATE ->
            IF opts.fallback_decompress = "absent"
            THEN Fail("MissingCollaborator")
            ELSE fallback_decompress(opts, data, original_size)
      [] method = METHOD_DICTIONARY ->
            IF ~HasDictionary(opts) THEN Fail("MissingCollaborator")
            ELSE decompress(opts.dictionary, data, original_size)
      [] method = METHOD_DICT_DEFLATE ->
            IF opts.fallback_decompress = "absent" \/ ~HasDictionary(opts)
            THEN Fail("MissingCollaborator")
            ELSE decompress(opts.dictionary, fallback_decompress(opts, data, Zero).data,
                            original_size)
      [] OTHER -> Fail("BadMethod")

\* decompress_blob once compressed_len is read
blob_data(payload, os, cl, opts) ==
    IF cl.err # "none" THEN cl
    ELSE dispatch_method(payload[1],
                         Slice(payload, 2 + os.len + cl.len,
                               Min(2 + os.len + cl.len + ToIndex(cl.value), 2 ^ 30)),
                         os.value, opts)

\* decompress_blob once original_size is read
blob_lengths(payload, os, opts) ==
    IF os.err # "none" THEN os
    ELSE blob_data(payload, os, decode_varint(payload, 2 + os.len), opts)

\* decompress_blob once the envelope is read (a payload too short to hold the
\* method byte fails in decode_varint before the method is used)
blob_payload_read(env, opts) ==
    IF env.err # "none" THEN env
    ELSE IF env.tag # TAG_COMPRESSED_BLOB THEN Fail("BadTag")
    ELSE blob_lengths(env.payload, decode_varint(env.payload, 2), opts)

decompress_blob(compressed, opts) ==
    blob_payload_read(read_envelope(compressed), opts)

\* ---------------------------------------------------------------------------
\* Specification of SymbolTree: build from a frequency table, encode, decode
\* ---------------------------------------------------------------------------
MaxFreq == 2

MaxActive == 17

MaxTreeData == 2

FIB == <<1, 1, 2, 3, 5, 8, 13, 21, 34, 55, 89, 144, 233, 377, 610, 987, 1597,
         2584, 4181, 6765, 10946, 17711>>

\* frequency tables over the bytes "a", "b", "c"
SmallTables ==
    {[i \in Symbols |-> IF i = 97 THEN a ELSE IF i = 98 THEN b ELSE IF i = 99 THEN c ELSE 0] :
        a \in 0 .. MaxFreq, b \in 0 .. MaxFreq, c \in 0 .. MaxFreq}

\* n active symbols "A", "B", ... whose counts grow like the Fibonacci numbers
SkewedTable(n) == [i \in Symbols |-> IF i >= 65 /\ i < 65 + n THEN FIB[i - 64] ELSE 0]

MaxStairs == 6

\* n active digits "0", "1", ... whose counts fall in pairs: .., 3, 2, 2, 1, 1
StairTable(n) ==
    [i \in Symbols |-> IF i >= 48 /\ i < 48 + n THEN 1 + (((47 + n) - i) \div 2) ELSE 0]

FrequencyTables ==
    SmallTables \cup {SkewedTable(n) : n \in 2 .. MaxActive}
        \cup {StairTable(n) : n \in 3 .. MaxStairs}

\* buffers over the counted bytes and one byte ("~") that was never counted
\* (the first three and the last of the counted bytes)
TreeData(frequencies) ==
    LET active == {i \in Symbols : frequencies[i] > 0}
        syms == {i \in active : \/ Cardinality({j \in active : j < i}) < 3
                                \/ \A j \in active : j <= i} \cup {126}
    IN UNION {[1 .. n -> syms] : n \in 0 .. MaxTreeData}

BuildTree ==
    /\ pc = "idle"
    /\ \E f \in FrequencyTables :
          /\ input' = [frequencies |-> f]
          /\ obj' = [lengths |-> from_frequencies(f)]
    /\ pc' = "tree_built"
    /\ UNCHANGED <<wire, output>>

EncodeTree ==
    /\ pc = "tree_built"
    /\ \E d \in TreeData(input.frequencies) :
          LET e == encode(obj.lengths, d)
          IN /\ input' = [frequencies |-> input.frequencies, data |-> d]
             /\ output' = e
             /\ wire' = IF e.err = "none" THEN e.bits ELSE <<>>
    /\ pc' = "tree_encoded"
    /\ UNCHANGED obj

DecodeTree ==
    /\ pc = "tree_encoded"
    /\ output.err = "none"
    /\ output' = decode(obj.lengths, wire, output.bit_count, Len(input.data))
    /\ pc' = "tree_decoded"
    /\ UNCHANGED <<obj, input, wire>>

NextTree == BuildTree \/ EncodeTree \/ DecodeTree

SpecTree == InitIdle /\ [][NextTree]_vars

\* C4: every tree built by from_frequencies has all code lengths at most 15 and
\* satisfies Kraft's inequality, the sum of 2^-len over the coded symbols being
\* at most 1
TreeLengthsKraft ==
    pc = "tree_built" =>
        /\ \A i \in Symbols : obj.lengths[i] <= 15
        /\ kraft_scaled(obj.lengths, 15, 1) <= 2 ^ 15

\* the bits encode writes for a coded symbol
WrittenCode(table, i) ==
    [j \in 1 .. table[i].length |-> (table[i].code \div (2 ^ (table[i].length - j))) % 2]

PrefixFree(lengths) ==
    LET table == build_encode_table(lengths)
        coded == {i \in Symbols : lengths[i] > 0}
    IN \A i \in coded : \A j \in coded \ {i} :
          \/ table[i].length > table[j].length
          \/ SubSeq(WrittenCode(table, j), 1, table[i].length) # WrittenCode(table, i)

\* C5: a buffer whose bytes all have a non-zero frequency is encoded without
\* error and decoded back to itself by the tree built from the table, and the
\* canonical codes of that tree are prefix-free
TreeRoundTrip ==
    /\ pc = "tree_built" => PrefixFree(obj.lengths)
    /\ /\ pc \in {"tree_encoded", "tree_decoded"}
       /\ \A k \in 1 .. Len(input.data) : input.frequencies[input.data[k]] > 0
       => output.err = "none"
    /\ /\ pc = "tree_decoded"
       /\ \A k \in 1 .. Len(input.data) : input.frequencies[input.data[k]] > 0
       => output.data = input.data

\* ---------------------------------------------------------------------------
\* Specification of Dictionary: train on a list of samples, then compress and
\* decompress one of them
\* ---------------------------------------------------------------------------
MaxSampleLen == 2

\* short samples over a zero byte and "a"
SmallSamples == UNION {[1 .. n -> {0, 97}] : n \in 0 .. MaxSampleLen}

\* lists of one or two of them
SmallSampleLists == [1 .. 1 -> SmallSamples] \cup [1 .. 2 -> SmallSamples]

\* "abcdefgh" four times and two more bytes: every gram size has a repeat
LongSample ==
    [i \in 1 .. 34 |-> 97 + ((i - 1) % 8)]

RepeatingSampleLists ==
    { <<LongSample, LongSample>>,
      <<LongSample, <<97, 98, 99, 100>>, <<0>>, <<>>>>,
      <<<<97, 98, 99, 100, 97, 98, 99, 100, 0, 5>>, <<97, 98, 99, 100>>, <<0>>, <<7>>>>,
      <<<<0, 0, 0, 0, 0, 0, 0, 0, 0>>, <<0, 0, 1, 0, 0, 0, 0>>>>,
      <<<<1, 2, 3, 4, 1, 2, 3, 4, 5, 6, 7, 8, 5, 6, 7, 8, 5, 6, 7, 8>>, <<9>>>> }

\* single-byte samples "A", "B", ...: FIB[j] copies of the j-th letter
SkewedSamples(n) ==
    [k \in 1 .. (FIB[n + 2] - 1) |->
        <<64 + (CHOOSE j \in 1 .. n : FIB[j + 2] - 1 >= k /\ FIB[j + 1] - 1 < k)>>]

SampleLists ==
    SmallSampleLists \cup RepeatingSampleLists
        \cup {SkewedSamples(MaxActive)}

Train ==
    /\ pc = "idle"
    /\ \E samples \in SampleLists :
          /\ input' = [samples |-> samples]
          /\ obj' = train(samples)
    /\ pc' = "dict_trained"
    /\ UNCHANGED <<wire, output>>

CompressSample ==
    /\ pc = "dict_trained"
    /\ \E s \in {input.samples[k] : k \in 1 .. Len(input.samples)} :
          LET c == compress(obj, s)
          IN /\ input' = [samples |-> input.samples, data |-> s]
             /\ output' = c
             /\ wire' = IF c.err = "none" THEN c.data ELSE <<>>
    /\ pc' = "dict_compressed"
    /\ UNCHANGED obj

DecompressSample ==
    /\ pc = "dict_compressed"
    /\ output.err = "none"
    /\ output' = decompress(obj, wire, N(Len(input.data)))
    /\ pc' = "dict_decompressed"
    /\ UNCHANGED <<obj, input, wire>>

NextDict == Train \/ CompressSample \/ DecompressSample

SpecDict == InitIdle /\ [][NextDict]_vars

\* C6: for a dictionary trained on a non-empty list of samples, compressing
\* any sample of the list succeeds and decompressing the result returns the
\* sample
DictionaryRoundTrip ==
    /\ pc \in {"dict_compressed", "dict_decompressed"} => output.err = "none"
    /\ pc = "dict_decompressed" => output.data = input.data

\* ---------------------------------------------------------------------------
\* Specification of the blob pipeline: compress_blob under some options, then
\* decompress_blob of the result under the same options
\* ---------------------------------------------------------------------------
MaxPlainLen == 2

\* short buffers over a zero byte, "a", "b" and "{"
ShortPlaintexts == UNION {[1 .. n -> {0, 97, 98, 123}] : n \in 0 .. MaxPlainLen}

Plaintexts ==
    ShortPlaintexts \cup
    { <<97, 98, 97, 98>>,
      [i \in 1 .. 24 |-> IF i % 8 = 1 THEN 97 ELSE 98],
      <<123, 97, 98, 97, 98, 97, 98>>,
      <<97, 98, 99, 100, 97, 98, 99, 100>>,
      <<97, 98, 99, 100, 97, 98, 99, 100, 0>>,
      LongSample,
      <<81, 81, 81, 81, 81, 67>>,
      <<81, 81, 81, 81, 81, 81, 81, 81>> }

PipelineDictionaries ==
    { NoDictionary,
      train(<<<<97>>, <<98>>>>),
      train(<<<<97, 98, 99, 100, 97, 98, 99, 100, 0, 5>>, <<97, 98, 99, 100>>, <<0>>, <<7>>>>),
      train(<<LongSample, LongSample>>),
      train(SkewedSamples(MaxActive)) }

\* what an injected compressor may do with a buffer: throw, append ten zero
\* bytes, copy, or return a shorter buffer
ExternalResults(x) ==
    { Fail("External"),
      [err |-> "none", data |-> x \o Repeat(0, 10)],
      [err |-> "none", data |-> x] }
    \cup (IF Len(x) = 0 THEN {}
          ELSE {[err |-> "none",
                 data |-> IF Len(x) = 1 THEN <<>> ELSE <<Len(x)>> \o Repeat(170, Len(x) - 2)]})

\* the injected compressors, as tables over the buffers compress_blob can
\* hand them: the plaintext and the dictionary output it adopted
Compressors(plaintext, dictionary) ==
    LET alone == [dictionary |-> dictionary, fallback_compress |-> NoCompressor,
                  fallback_decompress |-> "absent"]
        inputs == {plaintext, negotiate(plaintext, alone).data}
        tables == {t \in [inputs -> UNION {ExternalResults(x) : x \in inputs}] :
                      \A x \in inputs : t[x] \in ExternalResults(x)}
    IN {NoCompressor} \cup {[table |-> t] : t \in tables}

CompressBlob ==
    /\ pc = "idle"
    /\ \E dictionary \in PipelineDictionaries, plaintext \in Plaintexts :
          \E c \in Compressors(plaintext, dictionary),
             d \in {"absent", "inverse", "identity"} :
                LET opts == [dictionary |-> dictionary, fallback_compress |-> c,
                             fallback_decompress |-> d]
                IN /\ obj' = opts
                   /\ input' = [plaintext |-> plaintext]
                   /\ wire' = compress_blob(plaintext, opts)
    /\ pc' = "blob_compressed"
    /\ UNCHANGED output

DecompressBlob ==
    /\ pc = "blob_compressed"
    /\ output' = decompress_blob(wire, obj)
    /\ pc' = "blob_decompressed"
    /\ UNCHANGED <<obj, input, wire>>

NextPipeline == CompressBlob \/ DecompressBlob

SpecPipeline == InitIdle /\ [][NextPipeline]_vars

\* the injected decompressor returns what the injected compressor was given
Compatible(opts) ==
    HasCompressor(opts) =>
        /\ opts.fallback_decompress # "absent"
        /\ \A x \in DOMAIN opts.fallback_compress.table :
              LET r == opts.fallback_compress.table[x]
              IN r.err = "none" => fallback_decompress(opts, r.data, Zero).data = x

\* C1: decompress_blob(compress_blob(b, o), o) returns b for every buffer b
\* and every options value o whose decompressor inverts its compressor,
\* whichever method was selected
BlobRoundTrip ==
    pc = "blob_decompressed" /\ Compatible(obj) =>
        /\ output.err = "none"
        /\ output.data = input.plaintext

\* the fields of the blob that compress_blob returned
BlobFields ==
    LET payload == read_envelope(wire).payload
        os == decode_varint(payload, 2)
        cl == decode_varint(payload, 2 + os.len)
    IN [method |-> payload[1], original_size |-> os.value, compressed_len |-> cl.value,
        data |-> Slice(payload, 2 + os.len + cl.len, Len(payload))]

\* the outputs of the trials open to compress_blob: the dictionary on the
\* plaintext when the content is text or JSON, the compressor on the plaintext
\* and on the dictionary output
TrialOutputs ==
    LET p == input.plaintext
        dict_compressed == compress(obj.dictionary, p)
        by_dictionary ==
            IF /\ HasDictionary(obj)
               /\ detect_content_type(p) \in {CONTENT_TEXT_UTF8, CONTENT_JSON}
               /\ dict_compressed.err = "none"
            THEN {dict_compressed.data} ELSE {}
        table == obj.fallback_compress.table
        by_compressor ==
            IF HasCompressor(obj)
            THEN {table[x].data : x \in {y \in DOMAIN table : table[y].err = "none"}}
            ELSE {}
    IN by_dictionary \cup by_compressor

\* C3: in the blob returned by compress_blob, a method other than 0x00 comes
\* with a compressed_len not greater than the plaintext length, and when no
\* trial produced an output strictly shorter than the plaintext the method is
\* 0x00, compressed_len is the plaintext length and the data is the plaintext
BlobNeverLonger ==
    pc = "blob_compressed" =>
        LET b == BlobFields
            p == input.plaintext
        IN /\ b.original_size = N(Len(p))
           /\ b.compressed_len = N(Len(b.data))
           /\ b.method # METHOD_NONE => Len(b.data) <= Len(p)
           /\ (\A t \in TrialOutputs : Len(t) >= Len(p)) =>
                 /\ b.method = METHOD_NONE
                 /\ b.compressed_len = N(Len(p))
                 /\ b.data = p

\* both collaborators ran on a text, none of them gained a byte, and the
\* blob stores the plaintext
BlobNeverLongerWitness ==
    /\ pc = "blob_compressed"
    /\ HasDictionary(obj)
    /\ HasCompressor(obj)
    /\ Cardinality(TrialOutputs) >= 2
    /\ \A t \in TrialOutputs : Len(t) >= Len(input.plaintext)
    /\ Len(input.plaintext) > 0
    /\ BlobFields.method = METHOD_NONE
    /\ BlobFields.data = input.plaintext

\* ---------------------------------------------------------------------------
\* The record codecs together with the blob codec: every decoder applied to
\* the envelopes of every encoder
\* ---------------------------------------------------------------------------
\* options without collaborators
NoOptions ==
    [dictionary |-> NoDictionary, fallback_compress |-> NoCompressor,
     fallback_decompress |-> "absent"]

\* compress_blob(plaintext) without options
CompressRecord ==
    /\ pc = "idle"
    /\ \E plaintext \in ShortPlaintexts :
        Encoded("blob", plaintext, compress_blob(plaintext, NoOptions))

\* decompress_blob(buf) without options
DecompressRecord ==
    /\ pc \in {"encoded", "received"}
    /\ Decoded("blob", decompress_blob(wire, NoOptions))

NextTags == NextCodec \/ CompressRecord \/ DecompressRecord

SpecTags == InitIdle /\ [][NextTags]_vars

\* the tag a tag-strict decoder accepts
OwnTag ==
    [file_node |-> 1, dir_node |-> 2, group |-> 3, smt |-> 4, blob |-> 16]

\* C11: on an envelope that passes the length, magic, version and CRC checks,
\* decode_file_node, decode_dir_node, decode_group, decode_smt and
\* decompress_blob fail with BadTag when the tag is not their own, decode_node
\* fails with BadTag for every tag other than 0x01 and 0x02, and none of them
\* returns a value decoded from the payload of another record kind.
TagStrict ==
    (pc = "decoded" /\ ExpectedEnvelopeError(wire) = "none") =>
        /\ (obj.decoder # "node" /\ wire[4] # OwnTag[obj.decoder]) => output = Fail("BadTag")
        /\ (obj.decoder = "node" /\ wire[4] \notin {1, 2}) => output = Fail("BadTag")

\* decode_group applied to the envelope of a tree with entries, whose payload
\* would read as a group
TagStrictWitness ==
    /\ pc = "decoded"
    /\ obj.encoder = "smt"
    /\ obj.decoder = "group"
    /\ Len(input.value.entries) >= 1
    /\ ExpectedEnvelopeError(wire) = "none"
    /\ wire[4] = 4
    /\ output = Fail("BadTag")

\* ---------------------------------------------------------------------------
\* Blobs from elsewhere: envelopes with the blob tag and a valid checksum,
\* whatever their fields say, read with and without collaborators
\* ---------------------------------------------------------------------------
MaxBlobSize == 3

AbDictionary == train(<<<<97>>, <<98>>>>)

\* data bytes: arbitrary ones, and outputs of the dictionary
BlobDatas ==
    {<<>>, <<7>>, <<1, 2>>, compress(AbDictionary, <<97>>).data,
     compress(AbDictionary, <<97, 98, 98>>).data}

BlobMethods ==
    {METHOD_NONE, METHOD_DEFLATE, METHOD_DICTIONARY, METHOD_DICT_DEFLATE, 4, 255}

\* the options of the reader: each collaborator present or absent
ReaderOptions ==
    {[dictionary |-> d, fallback_compress |-> NoCompressor, fallback_decompress |-> f] :
        d \in {NoDictionary, AbDictionary}, f \in {"absent", "identity"}}

\* a blob arrives: method, content type, original_size, compressed_len, data
ReceiveBlob ==
    /\ pc = "idle"
    /\ \E method \in BlobMethods, original_size \in 0 .. MaxBlobSize, data \in BlobDatas :
        \E compressed_len \in {0, Len(data), Len(data) + 3}, opts \in ReaderOptions :
            /\ pc' = "blob_received"
            /\ obj' = opts
            /\ input' = [method |-> method, original_size |-> original_size,
                         compressed_len |-> compressed_len, data |-> data]
            /\ wire' = write_envelope(TAG_COMPRESSED_BLOB,
                            <<method, CONTENT_UNKNOWN>> \o encode_varint(N(original_size))
                                \o encode_varint(N(compressed_len)) \o data)
            /\ output' = None

ReadBlob ==
    /\ pc = "blob_received"
    /\ pc' = "blob_read"
    /\ output' = decompress_blob(wire, obj)
    /\ UNCHANGED <<obj, input, wire>>

NextBlobs == ReceiveBlob \/ ReadBlob

SpecBlobs == InitIdle /\ [][NextBlobs]_vars

\* C12: for every CRC-valid envelope with tag 0x10, a plaintext returned by
\* decompress_blob has the length original_size recorded in the envelope
\* (a difference is a LengthMismatch error, never a returned value).
BlobLengthChecked ==
    pc = "blob_read" =>
        (output.err = "none" => Len(output.data) = input.original_size)

\* C13: on a valid envelope decompress_blob fails with MissingCollaborator
\* for method 0x01 without fallback_decompress, for method 0x02 without
\* dictionary and for method 0x03 when either is missing; it fails with
\* BadMethod for every method byte outside 0x00..0x03; and for method 0x00
\* it returns the data bytes whatever collaborators are supplied.
BlobCollaborators ==
    pc = "blob_read" =>
        /\ (input.method = METHOD_DEFLATE /\ obj.fallback_decompress = "absent") =>
            output = Fail("MissingCollaborator")
        /\ (input.method = METHOD_DICTIONARY /\ ~HasDictionary(obj)) =>
            output = Fail("MissingCollaborator")
        /\ (input.method = METHOD_DICT_DEFLATE
                /\ (obj.fallback_decompress = "absent" \/ ~HasDictionary(obj))) =>
            output = Fail("MissingCollaborator")
        /\ input.method \notin {METHOD_NONE, METHOD_DEFLATE, METHOD_DICTIONARY,
                                METHOD_DICT_DEFLATE} =>
            output = Fail("BadMethod")
        /\ (input.method = METHOD_NONE /\ input.compressed_len = Len(input.data)) =>
            /\ output.err = "none"
            /\ output.data = input.data

\* method 0x03 read with a dictionary and no decompressor
BlobCollaboratorsWitness ==
    /\ pc = "blob_read"
    /\ input.method = METHOD_DICT_DEFLATE
    /\ HasDictionary(obj)
    /\ obj.fallback_decompress = "absent"
    /\ Len(input.data) > 0
    /\ input.compressed_len = Len(input.data)
    /\ output = Fail("MissingCollaborator")

\* ---------------------------------------------------------------------------
\* Payloads from elsewhere handed to the payload decoders: file payloads cut
\* short, directory payloads with any has-group byte, group payloads with any
\* role byte
\* ---------------------------------------------------------------------------
\* the payload inside an envelope the encoder wrote
PayloadOf(envelope) ==
    Slice(envelope, ENVELOPE_HEADER_SIZE, Len(envelope) - ENVELOPE_FOOTER_SIZE)

Received(kind, value, bytes) ==
    /\ pc' = "payload_received"
    /\ obj' = [kind |-> kind]
    /\ input' = value
    /\ wire' = bytes
    /\ output' = None

\* the first n bytes of the payload of a file
ReceiveFilePayload ==
    /\ pc = "idle"
    /\ \E i \in DOMAIN FileNodes :
        \E n \in 0 .. Len(PayloadOf(encode_file_node(FileNodes[i]))) :
            Received("file", [value |-> FileNodes[i],
                              full |-> Len(PayloadOf(encode_file_node(FileNodes[i])))],
                     Slice(PayloadOf(encode_file_node(FileNodes[i])), 0, n))

HasGroupBytes == {0, 1, 2, 128, 255}

\* the payload of a directory with the byte at offset 32 replaced
ReceiveDirPayload ==
    /\ pc = "idle"
    /\ \E i \in DOMAIN DirNodes, b \in HasGroupBytes :
        Received("dir", [value |-> DirNodes[i], has_group |-> b],
                 [PayloadOf(encode_dir_node(DirNodes[i])) EXCEPT ![HASH_SIZE + 1] = b])

RoleBytes == {ROLE_READ, ROLE_WRITE, ROLE_ADMIN, 3, 255}

\* the payload of a group with the role byte of its last member replaced
ReceiveGroupPayload ==
    /\ pc = "idle"
    /\ \E i \in {j \in DOMAIN Groups : Len(Groups[j].members) > 0}, b \in RoleBytes :
        Received("group", [value |-> Groups[i], role |-> b],
                 [PayloadOf(encode_group(Groups[i]))
                    EXCEPT ![Len(PayloadOf(encode_group(Groups[i])))] = b])

PayloadDecoded(result) ==
    /\ pc' = "payload_decoded"
    /\ output' = result
    /\ UNCHANGED <<obj, input, wire>>

DecodeFilePayload ==
    /\ pc = "payload_received"
    /\ obj.kind = "file"
    /\ PayloadDecoded(decode_file_node_payload(wire))

DecodeDirPayload ==
    /\ pc = "payload_received"
    /\ obj.kind = "dir"
    /\ PayloadDecoded(decode_dir_node_payload(wire))

DecodeGroupPayload ==
    /\ pc = "payload_received"
    /\ obj.kind = "group"
    /\ PayloadDecoded(decode_group_payload(wire))

NextPayloads ==
    \/ ReceiveFilePayload \/ ReceiveDirPayload \/ ReceiveGroupPayload
    \/ DecodeFilePayload \/ DecodeDirPayload \/ DecodeGroupPayload

SpecPayloads == InitIdle /\ [][NextPayloads]_vars

\* C14: decoding a file-node payload cut short anywhere (in the fixed
\* fields, in a varint, or in the hash, blob address or nonce of a chunk
\* reference) fails with Truncated; no FileNode with a hash shorter than 32
\* bytes, a nonce shorter than 24 bytes or a timestamp that is no number is
\* returned.
FilePayloadTruncated ==
    (pc = "payload_decoded" /\ obj.kind = "file") =>
        /\ Len(wire) < input.full => output = Fail("Truncated")
        /\ output.err = "none" =>
            /\ Len(output.value.content_hash) = HASH_SIZE
            /\ output.value.created # NaN
            /\ output.value.modified # NaN
            /\ \A k \in 1 .. Len(output.value.chunks) :
                /\ Len(output.value.chunks[k].hash) = HASH_SIZE
                /\ Len(output.value.chunks[k].blob_address) = HASH_SIZE
                /\ Len(output.value.chunks[k].nonce) = NONCE_SIZE

\* C15: a directory payload whose has-group byte is neither 0x00 nor 0x01
\* fails with Malformed, and so does a group payload with a role byte other
\* than 0x00, 0x01 and 0x02; no such payload decodes to a value.
MalformedBytes ==
    /\ (pc = "payload_decoded" /\ obj.kind = "dir" /\ input.has_group \notin {0, 1}) =>
        output = Fail("Malformed")
    /\ (pc = "payload_decoded" /\ obj.kind = "group"
            /\ input.role \notin {ROLE_READ, ROLE_WRITE, ROLE_ADMIN}) =>
        output = Fail("Malformed")

\* ---------------------------------------------------------------------------
\* Varint bytes from elsewhere: runs of continuation bytes, ended or not by a
\* byte with a clear continuation bit, read at an offset
\* ---------------------------------------------------------------------------
MaxVarintBytes == 9

\* k continuation bytes, then the terminator if there is one (-1: none)
VarintBytes(continuation, k, terminator) ==
    Repeat(continuation, k) \o (IF terminator < 0 THEN <<>> ELSE <<terminator>>)

ReceiveVarint ==
    /\ pc = "idle"
    /\ \E continuation \in {128, 255}, k \in 0 .. MaxVarintBytes, terminator \in {-1, 0, 1},
          prefix \in {<<>>, <<255>>} :
        /\ pc' = "varint_received"
        /\ input' = [continued |-> k, terminated |-> terminator >= 0,
                     offset |-> Len(prefix)]
        /\ wire' = prefix \o VarintBytes(continuation, k, terminator)
        /\ UNCHANGED <<obj, output>>

ReadVarint ==
    /\ pc = "varint_received"
    /\ pc' = "varint_read"
    /\ output' = decode_varint(wire, input.offset)
    /\ UNCHANGED <<obj, input, wire>>

NextVarintBytes == ReceiveVarint \/ ReadVarint

SpecVarintBytes == InitIdle /\ [][NextVarintBytes]_vars

\* C16: decode_varint fails with Truncated when the buffer ends before a byte
\* with a clear continuation bit (a zero-length input included), fails with
\* TooLarge for every input of 8 or more varint bytes, and returns a value
\* only for terminated varints of at most 7 bytes.
VarintErrors ==
    pc = "varint_read" =>
        LET bytes == input.continued + (IF input.terminated THEN 1 ELSE 0)
        IN /\ bytes >= 8 => output = Fail("TooLarge")
           /\ (bytes < 8 /\ ~input.terminated) => output = Fail("Truncated")
           /\ output.err = "none" => (input.terminated /\ bytes <= 7)

\* C17: decode_group and decode_smt detect the format of their input like
\* decode_node: bytes that start with 0x5A 0x4B are decoded as binary, and
\* every other input is parsed as legacy JSON instead of being rejected.
FormatAutoDetect ==
    (pc = "decoded" /\ obj.decoder \in {"group", "smt"}) =>
        /\ (obj.encoder = obj.decoder) =>
            (has_magic(wire) /\ output.err = "none" /\ output.value = input.value)
        /\ (obj.encoder = "legacy" /\ ~has_magic(wire)) =>
            /\ output.err = "none"
            /\ input.document <= Len(LegacyValues) =>
                output.value = LegacyValues[input.document]

\* ---------------------------------------------------------------------------
\* Dictionary.serialize and Dictionary.deserialize
\* ---------------------------------------------------------------------------

\* SymbolTree.serialize: new Uint8Array(this.lengths)
tree_serialize(lengths) == [i \in 1 .. 256 |-> lengths[i - 1]]

\* SymbolTree.deserialize
tree_deserialize(data) ==
    IF Len(data) < 256
    THEN Fail("Truncated")
    ELSE [err |-> "none", lengths |-> [i \in Symbols |-> data[i + 1]]]

\* new Dictionary(strings, tree)
Dictionary(strings, lengths) ==
    IF Len(strings) > MAX_STRINGS
    THEN Fail("TooManyStrings")
    ELSE [err |-> "none", dict |-> [strings |-> strings, lengths |-> lengths]]

\* the parts pushed for strings[lo + 1 .. hi]: a varint length, then the bytes
RECURSIVE serialize_parts(_, _, _)
serialize_parts(strings, lo, hi) ==
    IF hi <= lo THEN <<>>
    ELSE IF hi = lo + 1
         THEN encode_varint(N(Len(strings[hi]))) \o strings[hi]
         ELSE serialize_parts(strings, lo, (lo + hi) \div 2)
                  \o serialize_parts(strings, (lo + hi) \div 2, hi)

\* Dictionary.serialize
serialize(dict) ==
    <<1>> \o tree_serialize(dict.lengths)
          \o encode_varint(N(Len(dict.strings)))
          \o serialize_parts(dict.strings, 0, Len(dict.strings))

\* one pass of the loop of deserialize: the string after the length read
read_string(data, acc, len) ==
    IF len.err # "none" THEN len
    ELSE [err |-> "none",
          strings |-> Append(acc.strings,
                             Slice(data, acc.offset + len.len,
                                   acc.offset + len.len + ToIndex(len.value))),
          offset |-> acc.offset + len.len + ToIndex(len.value)]

\* n passes of the loop of deserialize, from the state acc
RECURSIVE read_strings(_, _, _)
read_strings(data, acc, n) ==
    IF acc.err # "none" \/ n = 0 THEN acc
    ELSE IF n = 1
         THEN read_string(data, acc, decode_varint(data, acc.offset))
         ELSE LET first == read_strings(data, acc, n \div 2)
              IN IF first.err # "none" THEN first
                 ELSE read_strings(data, first, n - (n \div 2))

deserialize_result(read, lengths) ==
    IF read.err # "none" THEN read ELSE Dictionary(read.strings, lengths)

\* the loop ends at the first length it cannot read, and every pass takes at
\* least one byte: passes beyond Len(data) + 1 are never reached
deserialize_strings(data, lengths, count) ==
    IF count.err # "none" THEN count
    ELSE deserialize_result(
             read_strings(data,
                          [err |-> "none", strings |-> <<>>, offset |-> 257 + count.len],
                          Min(ToIndex(count.value), Len(data) + 1)),
             lengths)

deserialize_tree(data, tree) ==
    IF tree.err # "none" THEN tree
    ELSE deserialize_strings(data, tree.lengths, decode_varint(data, 257))

\* a deserialize that reads the version byte and accepts every value
deserialize_any_version(data) ==
    deserialize_tree(data, tree_deserialize(Slice(data, 1, 257)))

\* Dictionary.deserialize
deserialize(data) ==
    IF At(data, 0) # 1
    THEN Fail("BadVersion")
    ELSE deserialize_tree(data, tree_deserialize(Slice(data, 1, 257)))

\* ---------------------------------------------------------------------------
\* Specification of the dictionary wire form: a dictionary from train or from
\* the constructor is serialized and read back, and deserialize reads buffers
\* that no serialize produced
\* ---------------------------------------------------------------------------

\* strings and code lengths handed to the constructor: a string whose length
\* takes two varint bytes, 255 strings, an empty string, no string
ConstructorStrings ==
    { <<>>,
      <<Repeat(65, 130)>>,
      <<<<>>, <<66, 67>>>>,
      [k \in 1 .. MAX_STRINGS |-> <<k, 255 - k>>] }

ConstructorLengths ==
    { [i \in Symbols |-> 0],
      [i \in Symbols |-> IF i < 2 THEN 1 ELSE 0],
      [i \in Symbols |-> 255 - i] }

Construct ==
    /\ pc = "idle"
    /\ \E strings \in ConstructorStrings, lengths \in ConstructorLengths :
          /\ input' = [strings |-> Len(strings)]
          /\ obj' = Dictionary(strings, lengths).dict
    /\ pc' = "dict_constructed"
    /\ UNCHANGED <<wire, output>>

Serialize ==
    /\ pc \in {"dict_trained", "dict_constructed"}
    /\ wire' = serialize(obj)
    /\ pc' = "dict_serialized"
    /\ UNCHANGED <<obj, input, output>>

Deserialize ==
    /\ pc = "dict_serialized"
    /\ output' = deserialize(wire)
    /\ pc' = "dict_restored"
    /\ UNCHANGED <<obj, input, wire>>

\* what follows the 256 code lengths in a received buffer
StringTables ==
    { <<>>,
      <<0>>,
      <<1, 0>>,
      <<1, 1, 65>>,
      <<1, 2, 65, 66>>,
      <<1, 33>> \o Repeat(65, 33),
      <<1, 5, 65>>,
      <<2, 2, 65, 66>>,
      <<255, 1>> \o Repeat(0, 255),
      <<128, 2>> \o Repeat(0, 256),
      Repeat(128, 8) \o <<1>> }

ReceiveDictionary ==
    /\ pc = "idle"
    /\ \E version \in {<<>>, <<0>>, <<1>>, <<2>>, <<255>>}, fill \in {0, 3, 200},
          tree_bytes \in {0, 255, 256}, table \in StringTables :
          /\ input' = [version |-> version, tree_bytes |-> tree_bytes, table |-> table]
          /\ wire' = version \o Repeat(fill, tree_bytes) \o table
    /\ pc' = "dict_received"
    /\ UNCHANGED <<obj, output>>

ReadDictionary ==
    /\ pc = "dict_received"
    /\ output' = deserialize(wire)
    /\ pc' = "dict_read"
    /\ UNCHANGED <<obj, input, wire>>

\* Dictionary.train([])
TrainNothing ==
    /\ pc = "idle"
    /\ input' = [samples |-> <<>>]
    /\ obj' = train(<<>>)
    /\ pc' = "dict_trained"
    /\ UNCHANGED <<wire, output>>

NextDictBytes ==
    \/ Train \/ TrainNothing \/ Construct \/ Serialize \/ Deserialize
    \/ ReceiveDictionary \/ ReadDictionary

SpecDictBytes == InitIdle /\ [][NextDictBytes]_vars

\* the number of bytes of encode_varint(n) for n < 2^21
VarintLength(n) == IF n < 128 THEN 1 ELSE IF n < 16384 THEN 2 ELSE 3

RECURSIVE PartsLength(_, _, _)
PartsLength(strings, lo, hi) ==
    IF hi <= lo THEN 0
    ELSE IF hi = lo + 1
         THEN VarintLength(Len(strings[hi])) + Len(strings[hi])
         ELSE PartsLength(strings, lo, (lo + hi) \div 2)
                  + PartsLength(strings, (lo + hi) \div 2, hi)

\* where the length prefix of strings[k] stands in the serialized form
StringStart(strings, k) ==
    257 + VarintLength(Len(strings)) + PartsLength(strings, 0, k - 1)

\* version byte 0x01, 256 length bytes, the string count, and every string
\* behind its length, with nothing after the last one
SerializedLayout(w, dict) ==
    /\ At(w, 0) = 1
    /\ \A i \in Symbols : At(w, i + 1) = dict.lengths[i]
    /\ decode_varint(w, 257) =
           [err |-> "none", value |-> N(Len(dict.strings)),
            len |-> VarintLength(Len(dict.strings))]
    /\ \A k \in 1 .. Len(dict.strings) :
          LET at == StringStart(dict.strings, k)
              n == Len(dict.strings[k])
          IN /\ decode_varint(w, at) =
                    [err |-> "none", value |-> N(n), len |-> VarintLength(n)]
             /\ Slice(w, at + VarintLength(n), at + VarintLength(n) + n) = dict.strings[k]
    /\ Len(w) = StringStart(dict.strings, Len(dict.strings) + 1)

\* C18: deserialize(d.serialize()) has the code lengths and the strings of d
\* in the same order; the serialized form is the version byte 0x01, the 256
\* code lengths, the string count and the length-prefixed strings; and
\* deserialize of a buffer whose first byte is not 0x01 fails with BadVersion
DictionaryWireRoundTrip ==
    /\ pc \in {"dict_serialized", "dict_restored"} => SerializedLayout(wire, obj)
    /\ pc = "dict_restored" =>
          /\ output.err = "none"
          /\ output.dict.lengths = obj.lengths
          /\ output.dict.strings = obj.strings
    /\ pc = "dict_read" /\ At(wire, 0) # 1 => output.err = "BadVersion"

\* a trained dictionary with several strings came back from its bytes
DictionaryWireRoundTripWitness ==
    /\ pc = "dict_restored"
    /\ "samples" \in DOMAIN input
    /\ Len(obj.strings) >= 2
    /\ output.err = "none"
    /\ output.dict.strings = obj.strings

\* the strings of dict fit the wire index and are 2 to 32 bytes long
BoundedStrings(dict) ==
    /\ Len(dict.strings) <= MAX_STRINGS
    /\ \A k \in 1 .. Len(dict.strings) :
          Len(dict.strings[k]) >= 2 /\ Len(dict.strings[k]) <= 32

\* C19: a dictionary returned by Dictionary.train or by Dictionary.deserialize
\* holds at most 255 strings, each 2 to 32 bytes long, and Dictionary.train of
\* no samples returns no strings and a tree whose code lengths are all zero
DictionaryBounded ==
    /\ pc = "dict_trained" => BoundedStrings(obj)
    /\ pc = "dict_trained" /\ Len(input.samples) = 0 =>
          /\ obj.strings = <<>>
          /\ \A i \in Symbols : obj.lengths[i] = 0
    /\ pc = "dict_read" /\ output.err = "none" => BoundedStrings(output.dict)

\* ---------------------------------------------------------------------------
\* compress_blob when a collaborator throws (checked under SpecPipeline)
\* ---------------------------------------------------------------------------

\* the calls compress_blob makes on its collaborators for input.plaintext
\* under the options obj, each with the method it stands for and its result:
\* the dictionary on a text, the compressor on the dictionary output when
\* that was adopted, and the compressor on the plaintext unless the call
\* before it threw
Trials ==
    LET p == input.plaintext
        stored == [method |-> METHOD_NONE, data |-> p]
        after == try_dictionary(p, obj, stored)
        on_top == HasCompressor(obj) /\ after.method = METHOD_DICTIONARY
        raw == /\ HasCompressor(obj)
               /\ on_top => fallback_compress(obj, after.data).err = "none"
    IN (IF /\ HasDictionary(obj)
           /\ detect_content_type(p) \in {CONTENT_TEXT_UTF8, CONTENT_JSON}
        THEN {[method |-> METHOD_DICTIONARY, ok |-> compress(obj.dictionary, p).err = "none"]}
        ELSE {})
       \cup (IF on_top
             THEN {[method |-> METHOD_DICT_DEFLATE,
                    ok |-> fallback_compress(obj, after.data).err = "none"]}
             ELSE {})
       \cup (IF raw
             THEN {[method |-> METHOD_DEFLATE, ok |-> fallback_compress(obj, p).err = "none"]}
             ELSE {})

\* C20: when dictionary.compress or fallback_compress throws during the
\* negotiation, compress_blob still returns a valid envelope, its method is
\* none or the method of a trial that succeeded, and decompress_blob under
\* the same options returns the plaintext
BlobSurvivesFailures ==
    (pc \in {"blob_compressed", "blob_decompressed"} /\ \E t \in Trials : ~t.ok) =>
        /\ read_envelope(wire).err = "none"
        /\ read_envelope(wire).tag = TAG_COMPRESSED_BLOB
        /\ BlobFields.method \in {METHOD_NONE} \cup {t.method : t \in {u \in Trials : u.ok}}
        /\ (pc = "blob_decompressed" /\ Compatible(obj)) =>
              /\ output.err = "none"
              /\ output.data = input.plaintext

\* C21: the method byte written by compress_blob is 0x01 or 0x03 only when a
\* fallback_compress function was supplied, is 0x02 or 0x03 only when a
\* dictionary was supplied and the plaintext is detected as JSON or text, and
\* is 0x00 for a plaintext detected as binary (the empty buffer is) when no
\* compressor was supplied
MethodNeedsCollaborator ==
    pc = "blob_compressed" =>
        /\ BlobFields.method \in {METHOD_DEFLATE, METHOD_DICT_DEFLATE} => HasCompressor(obj)
        /\ BlobFields.method \in {METHOD_DICTIONARY, METHOD_DICT_DEFLATE} =>
              /\ HasDictionary(obj)
              /\ detect_content_type(input.plaintext) \in {CONTENT_TEXT_UTF8, CONTENT_JSON}
        /\ (detect_content_type(input.plaintext) = CONTENT_BINARY /\ ~HasCompressor(obj)) =>
              BlobFields.method = METHOD_NONE

\* a binary plaintext that the supplied dictionary would shorten is stored
\* as it is
MethodNeedsCollaboratorWitness ==
    /\ pc = "blob_compressed"
    /\ detect_content_type(input.plaintext) = CONTENT_BINARY
    /\ HasDictionary(obj)
    /\ ~HasCompressor(obj)
    /\ compress(obj.dictionary, input.plaintext).err = "none"
    /\ Len(compress(obj.dictionary, input.plaintext).data) < Len(input.plaintext)
    /\ BlobFields.method = METHOD_NONE

\* ---------------------------------------------------------------------------
\* Specification of the scenario "50 bytes and a dictionary trained on
\* them": Dictionary.train([data]), then compress_blob(data, {dictionary})
\* ---------------------------------------------------------------------------
ScenarioLen == 50

\* how many different byte patterns the scenario draws from
MaxPattern == 3

\* the period of the k-th pattern: 1, 50, 25, 16, ...
Period(k) == IF k = 1 THEN 1 ELSE ScenarioLen \div (k - 1)

\* 50-byte values: a periodic run from a base byte, with the first
\* unprintable bytes 0x01 and with a zero byte at position zero_at (0: none)
ScenarioBytes(base, k, unprintable, zero_at) ==
    [i \in 1 .. ScenarioLen |->
        IF i = zero_at THEN 0
        ELSE IF i > 1 /\ i <= 1 + unprintable THEN 1
        ELSE base + ((i - 1) % Period(k))]

ScenarioInputs ==
    {ScenarioBytes(base, k, unprintable, zero_at) :
        base \in {14, 48, 91, 123, 160}, k \in 1 .. (MaxPattern + 1),
        unprintable \in {0, 4, 5}, zero_at \in {0, 1, ScenarioLen}}

TrainOnData ==
    /\ pc = "idle"
    /\ \E data \in ScenarioInputs :
          /\ input' = [plaintext |-> data]
          /\ obj' = [dictionary |-> train(<<data>>), fallback_compress |-> NoCompressor,
                     fallback_decompress |-> "absent"]
    /\ pc' = "scenario_trained"
    /\ UNCHANGED <<wire, output>>

CompressData ==
    /\ pc = "scenario_trained"
    /\ wire' = compress_blob(input.plaintext, obj)
    /\ pc' = "scenario_compressed"
    /\ UNCHANGED <<obj, input, output>>

NextScenario == TrainOnData \/ CompressData

SpecScenario == InitIdle /\ [][NextScenario]_vars

\* C22 as stated: for every 50 bytes and a dictionary trained on exactly
\* those bytes, without a compressor, compress_blob writes method 0x00 and a
\* compressed_len of 50
ScenarioStored ==
    pc = "scenario_compressed" =>
        /\ BlobFields.method = METHOD_NONE
        /\ BlobFields.compressed_len = N(ScenarioLen)

\* a zero byte, or at most nine printable bytes in ten (printable: 0x20 to
\* 0x7E, tab, line feed, carriage return, and every byte from 0x80 on),
\* unless the value opens with a brace or bracket and holds no zero byte
LooksBinary(data) ==
    \/ \E i \in 1 .. Len(data) : data[i] = 0
    \/ /\ data[1] \notin {123, 91}
       /\ Cardinality({i \in 1 .. Len(data) :
                          \/ data[i] \in 32 .. 126
                          \/ data[i] \in {9, 10, 13}
                          \/ data[i] >= 128}) * 10 <= Len(data) * 9

\* C22: for 50 bytes and a dictionary trained on exactly those bytes, without
\* a compressor, compress_blob writes method 0x00 and compressed_len 50 when
\* the bytes are detected as binary; when they are detected as text or JSON
\* it writes method 0x02 and the dictionary output, which is shorter than 50
ScenarioStoredWhenBinary ==
    pc = "scenario_compressed" =>
        /\ LooksBinary(input.plaintext) =>
              /\ BlobFields.method = METHOD_NONE
              /\ BlobFields.compressed_len = N(ScenarioLen)
              /\ BlobFields.data = input.plaintext
        /\ ~LooksBinary(input.plaintext) =>
              /\ BlobFields.method = METHOD_DICTIONARY
              /\ Len(BlobFields.data) < ScenarioLen
              /\ BlobFields.compressed_len = N(Len(BlobFields.data))
              /\ compress(obj.dictionary, input.plaintext) =
                     [err |-> "none", data |-> BlobFields.data]

\* 50 different bytes from 0xA0 on, none of them a zero: detected as text,
\* and stored through the dictionary
ScenarioStoredWhenBinaryWitness ==
    /\ pc = "scenario_compressed"
    /\ Cardinality({input.plaintext[i] : i \in 1 .. ScenarioLen}) = ScenarioLen
    /\ \A i \in 1 .. ScenarioLen : input.plaintext[i] >= 128
    /\ BlobFields.method = METHOD_DICTIONARY

\* ---------------------------------------------------------------------------
\* SymbolTree and Dictionary as objects: a tree instance is the record
\* [lengths, encode_table, decode_table], where a table field is <<>> while
\* it is null and <<table>> once it is built; a dictionary instance is
\* [strings, tree].  A method returns its result and the instance it leaves.
\* ---------------------------------------------------------------------------
new_tree(lengths) ==
    [lengths |-> lengths, encode_table |-> <<>>, decode_table |-> <<>>]

new_dictionary(dict) ==
    [strings |-> dict.strings, tree |-> new_tree(dict.lengths)]

\* a build_encode_table that keeps the table as it was before the codes
\* were assigned
tree_build_encode_unfilled(tree) ==
    IF Len(tree.encode_table) > 0
    THEN [table |-> tree.encode_table[1], tree |-> tree]
    ELSE [table |-> build_encode_table(tree.lengths),
          tree |-> [tree EXCEPT !.encode_table =
                       <<[i \in Symbols |-> [code |-> 0, length |-> 0]]>>]]

\* build_encode_table: if (this.encode_table) return this.encode_table; ...
\* this.encode_table = table
tree_build_encode(tree) ==
    IF Len(tree.encode_table) > 0
    THEN [table |-> tree.encode_table[1], tree |-> tree]
    ELSE [table |-> build_encode_table(tree.lengths),
          tree |-> [tree EXCEPT !.encode_table = <<build_encode_table(tree.lengths)>>]]

tree_store_decode(built, decode_map) ==
    [table |-> decode_map, tree |-> [built.tree EXCEPT !.decode_table = <<decode_map>>]]

\* build_decode_table: if (this.decode_table) return this.decode_table; ...
\* this.decode_table = decode
tree_build_decode(tree) ==
    IF Len(tree.decode_table) > 0
    THEN [table |-> tree.decode_table[1], tree |-> tree]
    ELSE tree_store_decode(tree_build_encode(tree),
                           decode_map_of(tree_build_encode(tree).table))

tree_encode_built(built, data) ==
    [result |-> encode_with(built.table, data), tree |-> built.tree]

\* tree.encode(data)
tree_encode(tree, data) == tree_encode_built(tree_build_encode(tree), data)

tree_decode_built(built, bits, bit_count, expected_length) ==
    [result |-> decode_with(built.table, built.tree.lengths, bits, bit_count, expected_length),
     tree |-> built.tree]

\* tree.decode(bits, bit_count, expected_length)
tree_decode(tree, bits, bit_count, expected_length) ==
    tree_decode_built(tree_build_decode(tree), bits, bit_count, expected_length)

dict_compress_encoded(dict, substituted, e) ==
    [result |-> pack_compressed(Len(substituted), e.result),
     dict |-> [dict EXCEPT !.tree = e.tree]]

dict_compress_substituted(dict, substituted) ==
    dict_compress_encoded(dict, substituted, tree_encode(dict.tree, substituted))

\* dict.compress(data)
dict_compress(dict, data) ==
    dict_compress_substituted(dict, apply_substitution(data, dict.strings))

dict_decompress_decoded(dict, d) ==
    [result |-> reverse_decoded(d.result, dict.strings),
     dict |-> [dict EXCEPT !.tree = d.tree]]

dict_decompress_bits(dict, compressed, sl, bc) ==
    IF bc.err # "none" THEN [result |-> bc, dict |-> dict]
    ELSE dict_decompress_decoded(dict,
             tree_decode(dict.tree, Slice(compressed, sl.len + bc.len, Len(compressed)),
                         ToIndex(bc.value), ToIndex(sl.value)))

dict_decompress_counts(dict, compressed, sl) ==
    IF sl.err # "none" THEN [result |-> sl, dict |-> dict]
    ELSE dict_decompress_bits(dict, compressed, sl, decode_varint(compressed, sl.len))

\* dict.decompress(compressed, original_size)
dict_decompress(dict, compressed) ==
    dict_decompress_counts(dict, compressed, decode_varint(compressed, 0))

\* dict.serialize(): reads this.tree.lengths and this.strings
dict_serialize(dict) ==
    serialize([strings |-> dict.strings, lengths |-> dict.tree.lengths])

\* ---------------------------------------------------------------------------
\* Specification of one shared instance: a dictionary is constructed and its
\* methods, and those of its tree, are called in any order
\* ---------------------------------------------------------------------------
MaxUses == 3

MaxCallLen == 2

InstanceSamples ==
    { <<>>,
      <<<<97>>, <<98>>>>,
      <<<<97, 98, 99, 100, 97, 98, 99, 100, 0, 5>>, <<97, 98, 99, 100>>, <<0>>, <<7>>>> }

\* the buffers handed to encode and compress
InstanceData ==
    UNION {[1 .. n -> {0, 97, 98}] : n \in 0 .. MaxCallLen} \cup {<<97, 98, 99, 100, 5>>}

\* the buffers handed to decompress: what compress returns, and others
InstanceCompressed(dict) ==
    {compress(dict, d).data : d \in {x \in InstanceData : compress(dict, x).err = "none"}}
        \cup {<<>>, <<1>>, <<1, 1, 0>>}

NewInstance ==
    /\ pc = "idle"
    /\ \E samples \in InstanceSamples :
          /\ obj' = new_dictionary(train(samples))
          /\ input' = [made |-> train(samples), uses |-> 0, call |-> "new"]
    /\ pc' = "instance"
    /\ UNCHANGED <<wire, output>>

\* the state after a call on the tree of the instance
TreeUsed(call, args, r) ==
    /\ obj' = [obj EXCEPT !.tree = r.tree]
    /\ output' = r.result
    /\ input' = [made |-> input.made, uses |-> input.uses + 1, call |-> call, args |-> args]
    /\ UNCHANGED <<pc, wire>>

\* the state after a call on the instance
DictionaryUsed(call, args, r) ==
    /\ obj' = r.dict
    /\ output' = r.result
    /\ input' = [made |-> input.made, uses |-> input.uses + 1, call |-> call, args |-> args]
    /\ UNCHANGED <<pc, wire>>

UseEncode ==
    /\ pc = "instance" /\ input.uses < MaxUses
    /\ \E data \in InstanceData :
          TreeUsed("encode", <<data>>, tree_encode(obj.tree, data))

UseDecode ==
    /\ pc = "instance" /\ input.uses < MaxUses
    /\ \E bits \in {<<0>>, <<128>>}, bit_count \in 0 .. MaxCallLen,
          expected_length \in 0 .. MaxCallLen :
          TreeUsed("decode", <<bits, bit_count, expected_length>>,
                   tree_decode(obj.tree, bits, bit_count, expected_length))

UseCompress ==
    /\ pc = "instance" /\ input.uses < MaxUses
    /\ \E data \in InstanceData :
          DictionaryUsed("compress", <<data>>, dict_compress(obj, data))

UseDecompress ==
    /\ pc = "instance" /\ input.uses < MaxUses
    /\ \E compressed \in InstanceCompressed(input.made) :
          DictionaryUsed("decompress", <<compressed>>, dict_decompress(obj, compressed))

UseSerialize ==
    /\ pc = "instance" /\ input.uses < MaxUses
    /\ DictionaryUsed("serialize", <<>>, [result |-> dict_serialize(obj), dict |-> obj])

NextInstance ==
    NewInstance \/ UseEncode \/ UseDecode \/ UseCompress \/ UseDecompress \/ UseSerialize

SpecInstance == InitIdle /\ [][NextInstance]_vars

\* the result of the last call, made on a fresh instance equal to the one
\* that was constructed
FreshResult ==
    CASE input.call = "encode" -> encode(input.made.lengths, input.args[1])
      [] input.call = "decode" ->
             decode(input.made.lengths, input.args[1], input.args[2], input.args[3])
      [] input.call = "compress" -> compress(input.made, input.args[1])
      [] input.call = "decompress" -> decompress(input.made, input.args[1], Zero)
      [] input.call = "serialize" -> serialize(input.made)

\* C23 as stated: no call of encode, decode, compress, decompress or
\* serialize changes any state held inside the instance
InstanceUntouched ==
    pc = "instance" => obj = new_dictionary(input.made)

\* C23: no call changes the strings or the code lengths of the instance; the
\* only fields a call writes are encode_table and decode_table of the tree,
\* each null or the table that follows from the code lengths; and every call,
\* after any calls before it, returns what it returns on a fresh equal
\* instance
InstanceResults ==
    pc = "instance" =>
        /\ obj.strings = input.made.strings
        /\ obj.tree.lengths = input.made.lengths
        /\ obj.tree.encode_table \in {<<>>, <<build_encode_table(input.made.lengths)>>}
        /\ obj.tree.decode_table \in {<<>>, <<build_decode_table(input.made.lengths)>>}
        /\ input.call # "new" => output = FreshResult

\* a compress that succeeded on an instance whose tree had built both of its
\* tables in earlier calls
InstanceResultsWitness ==
    /\ pc = "instance"
    /\ input.uses >= 2
    /\ input.call = "compress"
    /\ output.err = "none"
    /\ Len(input.args[1]) > 0
    /\ Len(obj.tree.decode_table) > 0

\* ---------------------------------------------------------------------------
\* Specification of the negotiation of compress_blob with a compressor that
\* is defined on the plaintext and on the dictionary output alike
\* ---------------------------------------------------------------------------
MaxTrialLen == 2

TrialPlaintexts ==
    UNION {[1 .. n -> {0, 97, 98, 123}] : n \in 0 .. MaxTrialLen}
        \cup {<<97, 98, 97, 98>>, <<97, 98, 97, 98, 97, 98, 97, 98>>}

\* what the compressor may do with a buffer: throw, copy, drop the last
\* byte, return one byte
TrialResults(x) ==
    {Fail("External"), [err |-> "none", data |-> x],
     [err |-> "none", data |-> Slice(x, 0, Len(x) - 1)],
     [err |-> "none", data |-> <<7>>]}

\* the output of the dictionary step, if it ran and did not throw
DictionaryOutput(plaintext, dictionary) ==
    IF /\ "absent" \notin DOMAIN dictionary
       /\ detect_content_type(plaintext) \in {CONTENT_TEXT_UTF8, CONTENT_JSON}
       /\ compress(dictionary, plaintext).err = "none"
    THEN {compress(dictionary, plaintext).data}
    ELSE {}

TrialCompressors(plaintext, dictionary) ==
    LET inputs == {plaintext} \cup DictionaryOutput(plaintext, dictionary)
        tables == {t \in [inputs -> UNION {TrialResults(x) : x \in inputs}] :
                      \A x \in inputs : t[x] \in TrialResults(x)}
    IN {NoCompressor} \cup {[table |-> t] : t \in tables}

NegotiateBlob ==
    /\ pc = "idle"
    /\ \E dictionary \in {NoDictionary, AbDictionary}, plaintext \in TrialPlaintexts :
          \E c \in TrialCompressors(plaintext, dictionary) :
             LET opts == [dictionary |-> dictionary, fallback_compress |-> c,
                          fallback_decompress |-> "absent"]
             IN /\ obj' = opts
                /\ input' = [plaintext |-> plaintext]
                /\ wire' = compress_blob(plaintext, opts)
    /\ pc' = "negotiated"
    /\ UNCHANGED output

ReadNegotiated ==
    /\ pc = "negotiated"
    /\ output' = BlobFields
    /\ pc' = "negotiation_read"
    /\ UNCHANGED <<obj, input, wire>>

NextTrials == NegotiateBlob \/ ReadNegotiated

SpecTrials == InitIdle /\ [][NextTrials]_vars

\* the trials of the negotiation in their order, each with its method and
\* its output: the plaintext itself, the dictionary on the plaintext, the
\* compressor on the dictionary output, the compressor on the plaintext
TrialSequence ==
    LET p == input.plaintext
        d == DictionaryOutput(p, obj.dictionary)
        on(x) == IF HasCompressor(obj) /\ fallback_compress(obj, x).err = "none"
                 THEN <<fallback_compress(obj, x).data>> ELSE <<>>
        dict_out == IF d = {} THEN <<>> ELSE <<CHOOSE x \in d : TRUE>>
        on_top == IF d = {} THEN <<>> ELSE on(dict_out[1])
    IN <<[method |-> METHOD_NONE, data |-> p]>>
       \o [k \in 1 .. Len(dict_out) |-> [method |-> METHOD_DICTIONARY, data |-> dict_out[k]]]
       \o [k \in 1 .. Len(on_top) |-> [method |-> METHOD_DICT_DEFLATE, data |-> on_top[k]]]
       \o [k \in 1 .. Len(on(p)) |-> [method |-> METHOD_DEFLATE, data |-> on(p)[k]]]

\* C24: the compressor is tried on the plaintext whenever it is available and
\* on the dictionary output whenever the dictionary step produced one; a trial
\* replaces the best only when strictly shorter, so the blob holds the first
\* of the shortest trial outputs, under that trial's method
FirstShortestTrial ==
    pc = "negotiation_read" =>
        \E k \in 1 .. Len(TrialSequence) :
            /\ \A j \in 1 .. Len(TrialSequence) :
                  /\ Len(TrialSequence[k].data) <= Len(TrialSequence[j].data)
                  /\ j < k => Len(TrialSequence[k].data) < Len(TrialSequence[j].data)
            /\ output.method = TrialSequence[k].method
            /\ output.data = TrialSequence[k].data

\* ---------------------------------------------------------------------------
\* Specification of SymbolTree.decode step by step: the call, which builds
\* the tables of the tree, each pass of its while loop, and the check behind
\* the loop
\* ---------------------------------------------------------------------------
MaxStreamBits == 3

MaxExpected == 2

\* trees: no symbol, "a" alone, "a" and "b", and "a", "b", "c" with lengths 1, 2, 2
StepTables ==
    {[i \in Symbols |-> IF i = 97 THEN a ELSE IF i = 98 THEN b ELSE IF i = 99 THEN c ELSE 0] :
        a \in {0, 2}, b \in {0, 1}, c \in {0, 1}}

\* one pass of the while loop from the state st = [bit_pos, out]: the for
\* loop reads up to max_len bits; a hit appends a symbol and consumes its
\* bits, bits read without a hit throw, and no bit read leaves st as it is
decode_pass(decode_map, max_len, bits, bit_count, st) ==
    LET last == Min(max_len, bit_count - st.bit_pos)
        hits == {len \in 1 .. last :
                    decode_key(len, stream_code(bits, st.bit_pos, len)) \in DOMAIN decode_map}
        len == CHOOSE l \in hits : \A m \in hits : l <= m
    IN IF hits = {}
       THEN IF last > 0 THEN Fail("BadCode") ELSE st
       ELSE [bit_pos |-> st.bit_pos + len,
             out |-> Append(st.out, decode_map[decode_key(len,
                                        stream_code(bits, st.bit_pos, len))])]

CallDecode ==
    /\ pc = "idle"
    /\ \E tree \in {tree_build_decode(new_tree(from_frequencies(f))).tree : f \in StepTables} :
          \E bits \in {<<>>, <<0>>, <<64>>, <<128>>, <<192>>},
             bit_count \in 0 .. MaxStreamBits, expected_length \in 0 .. MaxExpected :
             /\ obj' = tree
             /\ input' = [bits |-> bits, bit_count |-> bit_count,
                          expected_length |-> expected_length]
    /\ output' = [bit_pos |-> 0, out |-> <<>>]
    /\ pc' = "decoding"
    /\ UNCHANGED wire

\* while (bit_pos < bit_count && out_pos < expected_length) { ... }
DecodePass ==
    /\ pc = "decoding"
    /\ output.bit_pos < input.bit_count
    /\ Len(output.out) < input.expected_length
    /\ output' = decode_pass(obj.decode_table[1],
                             CHOOSE m \in {obj.lengths[i] : i \in Symbols} :
                                 \A i \in Symbols : obj.lengths[i] <= m,
                             input.bits, input.bit_count, output)
    /\ pc' = IF "err" \in DOMAIN output' THEN "decode_thrown" ELSE "decoding"
    /\ UNCHANGED <<obj, input, wire>>

\* if (out_pos !== expected_length) throw ...; return output
DecodeReturn ==
    /\ pc = "decoding"
    /\ ~(output.bit_pos < input.bit_count /\ Len(output.out) < input.expected_length)
    /\ IF Len(output.out) # input.expected_length
       THEN /\ output' = Fail("LengthMismatch")
            /\ pc' = "decode_thrown"
       ELSE /\ output' = [err |-> "none", data |-> output.out, bit_pos |-> output.bit_pos]
            /\ pc' = "decode_returned"
    /\ UNCHANGED <<obj, input, wire>>

NextDecodeSteps == CallDecode \/ DecodePass \/ DecodeReturn

SpecDecodeSteps == InitIdle /\ [][NextDecodeSteps]_vars

\* the same, with a call that keeps running while it can take a step
SpecDecodeRuns == SpecDecodeSteps /\ WF_vars(DecodePass \/ DecodeReturn)

\* C25: every call of SymbolTree.decode returns or throws, whatever the tree,
\* the bits, bit_count and expected_length are, a tree without symbols
\* included
DecodeTerminates ==
    (pc = "decoding") ~> (pc \in {"decode_returned", "decode_thrown"})

\* ---------------------------------------------------------------------------
\* Specification of the substitution coding: apply_substitution on a buffer
\* and a list of strings, then reverse_substitution of the result
\* ---------------------------------------------------------------------------
MaxSubLen == 3

SubstitutionData == UNION {[1 .. n -> {0, 97, 98}] : n \in 0 .. MaxSubLen}

\* lists of non-empty strings: a prefix before and behind a longer string,
\* strings made of the escape byte, and a full list whose last string occurs
StringLists ==
    { <<>>,
      <<<<97>>, <<97, 98>>>>,
      <<<<97, 98>>, <<97>>>>,
      <<<<98, 97>>, <<97, 98, 97>>, <<98>>>>,
      <<<<0>>>>,
      <<<<0, 0>>, <<98>>>>,
      <<<<98, 0>>, <<0, 97>>>>,
      [k \in 1 .. MAX_STRINGS |-> IF k = MAX_STRINGS THEN <<98>> ELSE <<200, k>>] }

Substitute ==
    /\ pc = "idle"
    /\ \E data \in SubstitutionData, strings \in StringLists :
          /\ input' = [data |-> data, strings |-> strings]
          /\ wire' = apply_substitution(data, strings)
    /\ pc' = "substituted"
    /\ UNCHANGED <<obj, output>>

ReverseSubstitute ==
    /\ pc = "substituted"
    /\ output' = reverse_substitution(wire, input.strings)
    /\ pc' = "reversed"
    /\ UNCHANGED <<obj, input, wire>>

NextSubstitution == Substitute \/ ReverseSubstitute

SpecSubstitution == InitIdle /\ [][NextSubstitution]_vars

\* the indices of the strings that stand at the head of data
MatchesAtHead(data, strings) ==
    {s \in 1 .. Len(strings) :
        Len(strings[s]) <= Len(data) /\ SubSeq(data, 1, Len(strings[s])) = strings[s]}

\* what the coding of data is made of: 0x00 and the 1-based index of the
\* first string at the head of data, then the coding of what follows that
\* string; or else the head byte, doubled when it is 0x00, then the coding
\* of what follows it
RECURSIVE SubstitutionOf(_, _)
SubstitutionOf(data, strings) ==
    IF Len(data) = 0 THEN <<>>
    ELSE IF MatchesAtHead(data, strings) # {}
    THEN LET s == CHOOSE m \in MatchesAtHead(data, strings) :
                      \A t \in MatchesAtHead(data, strings) : m <= t
         IN <<0, s>> \o SubstitutionOf(SubSeq(data, Len(strings[s]) + 1, Len(data)), strings)
    ELSE (IF data[1] = 0 THEN <<0, 0>> ELSE <<data[1]>>)
             \o SubstitutionOf(SubSeq(data, 2, Len(data)), strings)

DecodeExact ==
    /\ pc = "decode_returned" =>
          /\ Len(output.data) = input.expected_length
          /\ output.bit_pos = input.bit_count
    /\ pc = "decode_thrown" => output.err \in {"BadCode", "LengthMismatch"}

\* ---------------------------------------------------------------------------
\* Accepted buffers of the four record decoders and their re-encoding
\* ---------------------------------------------------------------------------
RecordKinds == {"file", "dir", "group", "smt"}

RecordCount(kind) ==
    CASE kind = "file" -> Len(FileNodes)
      [] kind = "dir" -> Len(DirNodes)
      [] kind = "group" -> Len(Groups)
      [] OTHER -> Len(SMTs)

RecordTag(kind) ==
    CASE kind = "file" -> TAG_FILE_NODE
      [] kind = "dir" -> TAG_DIR_NODE
      [] kind = "group" -> TAG_GROUP
      [] OTHER -> TAG_SMT

encode_record(kind, value) ==
    CASE kind = "file" -> encode_file_node(value)
      [] kind = "dir" -> encode_dir_node(value)
      [] kind = "group" -> encode_group(value)
      [] OTHER -> encode_smt(value)

decode_record(kind, buf) ==
    CASE kind = "file" -> decode_file_node(buf)
      [] kind = "dir" -> decode_dir_node(buf)
      [] kind = "group" -> decode_group(buf)
      [] OTHER -> decode_smt(buf)

\* the payload the encoder of the kind writes for the i-th value
RecordPayload(kind, i) ==
    CASE kind = "file" -> PayloadOf(encode_file_node(FileNodes[i]))
      [] kind = "dir" -> PayloadOf(encode_dir_node(DirNodes[i]))
      [] kind = "group" -> PayloadOf(encode_group(Groups[i]))
      [] OTHER -> PayloadOf(encode_smt(SMTs[i]))

\* where the first varint of a payload starts: size, member count, entry count
FirstVarint(kind) ==
    IF kind = "file" THEN HASH_SIZE + (2 * TIMESTAMP_SIZE) ELSE HASH_SIZE

\* the varint at offset with a continuation bit on its last byte and a 0x00
\* behind it: one byte longer, the same value
OverlongAt(payload, offset, len) ==
    Slice(payload, 0, (offset + len) - 1)
        \o <<payload[offset + len] + 128, 0>>
        \o Slice(payload, offset + len, Len(payload))

\* ways a producer other than the encoders may write a payload
Alterations == {"none", "trailing_byte", "overlong_varint", "has_group_byte", "padding_bit"}

\* the last entry of the i-th tree has a path that does not fill its last byte
HasPadding(i) ==
    /\ Len(SMTs[i].entries) > 0
    /\ Len(SMTs[i].entries[Len(SMTs[i].entries)].path_bits) % 8 # 0

Applies(kind, i, alteration) ==
    CASE alteration = "overlong_varint" -> kind # "dir"
      [] alteration = "has_group_byte" -> kind = "dir" /\ ~DirNodes[i].group_id.present
      [] alteration = "padding_bit" -> kind = "smt" /\ HasPadding(i)
      [] OTHER -> TRUE

Altered(kind, payload, alteration) ==
    CASE alteration = "trailing_byte" -> payload \o <<0>>
      [] alteration = "overlong_varint" ->
            OverlongAt(payload, FirstVarint(kind),
                       decode_varint(payload, FirstVarint(kind)).len)
      [] alteration = "has_group_byte" -> [payload EXCEPT ![HASH_SIZE + 1] = 2]
      [] alteration = "padding_bit" ->
            [payload EXCEPT ![Len(payload) - HASH_SIZE] = @ + 1]
      [] OTHER -> payload

\* an enveloped record arrives, its payload written in one of the ways
ReceiveRecord ==
    /\ pc = "idle"
    /\ \E kind \in RecordKinds, alteration \in Alterations :
        \E i \in 1 .. RecordCount(kind) :
            /\ Applies(kind, i, alteration)
            /\ pc' = "record_received"
            /\ obj' = [kind |-> kind, alteration |-> alteration]
            /\ input' = [index |-> i]
            /\ wire' = write_envelope(RecordTag(kind),
                                      Altered(kind, RecordPayload(kind, i), alteration))
            /\ output' = None

DecodeRecord ==
    /\ pc = "record_received"
    /\ pc' = "record_decoded"
    /\ output' = decode_record(obj.kind, wire)
    /\ UNCHANGED <<obj, input, wire>>

\* the decoded value goes through the encoder of its kind
ReencodeRecord ==
    /\ pc = "record_decoded"
    /\ output.err = "none"
    /\ pc' = "record_reencoded"
    /\ output' = [err |-> "none", value |-> output.value,
                  bytes |-> encode_record(obj.kind, output.value)]
    /\ UNCHANGED <<obj, input, wire>>

NextCanonical == ReceiveRecord \/ DecodeRecord \/ ReencodeRecord

SpecCanonical == InitIdle /\ [][NextCanonical]_vars

\* C28: the binary encoding of the records is canonical: every buffer that
\* decode_file_node, decode_dir_node, decode_group or decode_smt accepts is
\* the buffer the encoder writes for the decoded value, so an overlong
\* varint, a has-group byte other than 0 and 1, a set padding bit or a
\* trailing payload byte is never accepted
CanonicalEncoding == pc = "record_reencoded" => output.bytes = wire

\* C29: in every tree built by from_frequencies a symbol that was counted
\* more often than another counted symbol never has the longer code
MoreFrequentNotLonger ==
    pc # "idle" =>
        LET active == {i \in Symbols : input.frequencies[i] > 0}
        IN \A a \in active, b \in active :
              input.frequencies[a] > input.frequencies[b]
                  => obj.lengths[a] <= obj.lengths[b]

\* a tree of at least three symbols in which the most frequent symbol has the
\* highest byte value and a strictly shorter code than a rarer one, while two
\* symbols of different counts share a length
MoreFrequentNotLongerWitness ==
    /\ pc = "tree_built"
    /\ LET active == {i \in Symbols : input.frequencies[i] > 0}
       IN /\ Cardinality(active) >= 3
          /\ \E a \in active, b \in active :
                /\ a > b
                /\ input.frequencies[a] > input.frequencies[b]
                /\ obj.lengths[a] < obj.lengths[b]
          /\ \E a \in active, b \in active :
                /\ input.frequencies[a] > input.frequencies[b]
                /\ obj.lengths[a] = obj.lengths[b]

\* ---------------------------------------------------------------------------
\* One entry of a sparse Merkle tree on the wire
\* ---------------------------------------------------------------------------
MaxEntryBits == 9

\* every path of 0 .. MaxEntryBits bits
EntryPaths == UNION {[1 .. n -> BOOLEAN] : n \in 0 .. MaxEntryBits}

\* the bits of the last path byte behind an n-bit path
PaddingBits(n) == (8 - (n % 8)) % 8

\* padding written by another producer: the lowest bit, the highest padding
\* bit, or all of them
PaddingPatterns(n) ==
    IF PaddingBits(n) = 0 THEN {}
    ELSE {1, 2 ^ (PaddingBits(n) - 1), (2 ^ PaddingBits(n)) - 1}

\* encode_smt of a tree with the one entry
WriteEntry ==
    /\ pc = "idle"
    /\ \E path \in EntryPaths :
          /\ input' = [path_bits |-> path, value |-> Hash(Len(path))]
          /\ wire' = encode_smt([root |-> Hash(1),
                                 entries |-> <<[path_bits |-> path,
                                                value |-> Hash(Len(path))]>>])
    /\ pc' = "entry_written"
    /\ obj' = [padded |-> FALSE]
    /\ output' = None

\* the same tree from a producer that leaves other padding bits in the last
\* path byte; the envelope carries the CRC of what was written
PadEntry ==
    /\ pc = "entry_written"
    /\ \E p \in PaddingPatterns(Len(input.path_bits)) :
          wire' = write_envelope(TAG_SMT,
                     [PayloadOf(wire) EXCEPT ![Len(PayloadOf(wire)) - HASH_SIZE] = @ + p])
    /\ pc' = "entry_padded"
    /\ obj' = [padded |-> TRUE]
    /\ UNCHANGED <<input, output>>

ReadEntry ==
    /\ pc \in {"entry_written", "entry_padded"}
    /\ output' = decode_smt(wire)
    /\ pc' = "entry_read"
    /\ UNCHANGED <<obj, input, wire>>

NextEntry == WriteEntry \/ PadEntry \/ ReadEntry

SpecEntry == InitIdle /\ [][NextEntry]_vars

\* the entry of the payload: what follows the root and the entry count
EntryBytes(buf) == Slice(PayloadOf(buf), HASH_SIZE + 1, Len(PayloadOf(buf)))

\* bit `position` (7 is the highest) of a byte
BitOf(byte, position) == (byte \div (2 ^ position)) % 2

\* C30: an entry with a path of n bits is varint(n), then exactly ceil(n/8)
\* path bytes, then the 32 bytes of the value; bit i of the path is bit
\* 7 - (i mod 8) of path byte floor(i/8); reading uses the first n bits only,
\* so the decoded path is the written one whatever the padding bits are
EntryLayout ==
    pc # "idle" =>
        LET n == Len(input.path_bits)
            entry == EntryBytes(wire)
            head == Len(encode_varint(N(n)))
        IN /\ Slice(entry, 0, head) = encode_varint(N(n))
           /\ Len(entry) = head + ((n + 7) \div 8) + HASH_SIZE
           /\ \A i \in 0 .. (n - 1) :
                 BitOf(entry[head + (i \div 8) + 1], 7 - (i % 8)) = 1
                     <=> input.path_bits[i + 1]
           /\ Slice(entry, Len(entry) - HASH_SIZE, Len(entry)) = input.value
           /\ pc = "entry_read" =>
                 output = [err |-> "none",
                           value |-> [root |-> Hash(1),
                                      entries |-> <<[path_bits |-> input.path_bits,
                                                     value |-> input.value]>>]]

\* a path of nine bits whose first and last bit are set fills bit 7 of two
\* path bytes, and comes back although the seven padding bits were set
EntryLayoutWitness ==
    /\ pc = "entry_read"
    /\ obj.padded
    /\ Len(input.path_bits) = 9
    /\ input.path_bits[1] /\ input.path_bits[9]
    /\ EntryBytes(wire)[3] = 255
    /\ output.err = "none"
    /\ output.value.entries[1].path_bits = input.path_bits

====
